---- MODULE Spec2Model ----
(***************************************************************************)
(* A model of rpmd/main.py (class RPMD): the umbrella-sampling stage       *)
(* computePotentialOfMeanForce, the recrossing stage                       *)
(* computeRecrossingFactor, computeRateCoefficient and the checkpoint      *)
(* files they read and write.                                              *)
(*                                                                         *)
(* Numbers.  Floating-point quantities are held as integers in fixed       *)
(* units.  A quantity that the code writes to a file with a fixed number   *)
(* of decimals is held in memory in units of 1/Quantum of the last decimal *)
(* the file keeps, so that writing it rounds it (FormatFixed) and reading  *)
(* it back (ParseFixed) does not in general give the value in memory.      *)
(* Ratios (a transmission-coefficient estimate kappa_num[-1]/kappa_denom)  *)
(* are held as the pair <<numerator, denominator>> and compared exactly.   *)
(***************************************************************************)
EXTENDS Integers, Sequences, FiniteSets, TLC

VARIABLES
    \* ---- the RPMD object (main.py 142-166)
    potentialOfMeanForce,   \* self.potentialOfMeanForce: None or [xi, A]
    selfRecrossingFactor,   \* self.recrossingFactor: None or <<num, denom>>
    dt,                     \* self.dt
    xi_current,             \* self.xi_current
    thermostat,             \* self.thermostat ("unset" until a stage sets it)
    mode,                   \* self.mode
    \* ---- control
    pc,                     \* position of the running stage call, or "idle"
    op,                     \* the stage call made most recently
    err,                    \* the exception that ended the most recent call
    args,                   \* the arguments of the most recent call
    \* ---- locals of computeRecrossingFactor
    kappa_num, kappa_denom, childCount, parentIter, done,
    recrossingFactor,       \* the list of estimates, one per batch
    results,                \* the results of the batch's child trajectories
    launched,               \* the children launched in the batch: momentum, position
    q,                      \* the parent trajectory's position array
    deviants,               \* number of non-default child results drawn so far
    rxCompleted,            \* some computeRecrossingFactor call has returned
    factorXi,               \* the xi_current of the call that stored self.recrossingFactor
    \* ---- the Window objects and the locals of computePotentialOfMeanForce
    win,                    \* self.umbrellaWindows: av, av2, count of each Window
    windows,                \* the list of the windows that need a trajectory
    trajResults,            \* the results of the pass's trajectories
    resultCount,            \* count: how many results of the pass are processed
    passStart,              \* the windows and files when the pass was dispatched
    passes,                 \* passes of the while loop made by the running call
    win0,                   \* av, av2, count of each Window when the call was made
    src,                    \* which deterministic trajectory source the job has
    tolerance,              \* the tolerance argument the job's calls are made with
    multiprocessing,        \* `import multiprocessing` succeeds in this installation
    history,                \* what has happened to the working directory so far
    pmfRepeated,            \* the last convergence check recomputed the same PMF
    \* ---- the umbrella configurations
    job,                    \* self.T and self.Nbeads of the RPMD object
    umbrellaConfigurations, \* self.umbrellaConfigurations: None or the list of (xi, q)
    equilibrateLog,         \* the system.equilibrate calls of the most recent
                            \* generateUmbrellaConfigurations call, in order
    configurationsFile,     \* umbrella_configurations.dat: None or its content
    transitionStates,       \* self.transitionStates
    \* ---- the worker pool
    finished,               \* the tasks of the batch in flight that have finished,
                            \* in the order in which they finished
    \* ---- files
    umbrellaFile,           \* umbrella_sampling_<xi>.dat of each window
    pmfFile,                \* potential_of_mean_force.dat: None or its content
    recrossingFile,         \* recrossing_factor.dat: None or its content
    rateFile                \* rate_coefficient_N.dat: None or its content

rxVars == <<kappa_num, kappa_denom, childCount, parentIter, done,
            recrossingFactor, results, launched, q, deviants>>
jobVars == <<potentialOfMeanForce, selfRecrossingFactor, dt, xi_current,
             thermostat, mode>>
fileVars == <<pmfFile, recrossingFile, rateFile>>
cfgVars == <<job, umbrellaConfigurations, equilibrateLog, configurationsFile,
             transitionStates>>
umVars == <<win, windows, trajResults, resultCount, passStart, passes, win0, src,
            tolerance, multiprocessing, cfgVars,
            history, pmfRepeated, umbrellaFile>>
rxAll == <<rxVars, rxCompleted, factorXi, args, fileVars>>
vars == <<jobVars, pc, op, err, args, rxVars, rxCompleted, factorXi, fileVars, umVars, finished>>

\* Python's None is the empty tuple; a value v that may be None is held as <<v>>
None == <<>>
Some(v) == <<v>>
Val(o) == o[1]
\* the position array when no trajectory exists
NoPosition == [parent |-> 0 - 1, child |-> 0]

----------------------------------------------------------------------------
(* Bounds of the model *)

\* the largest childrenPerSampling a call is made with
MaxChildrenPerSampling == 3
\* the largest childTrajectories (child budget) a call is made with
MaxChildTrajectories == 24
\* how many child trajectories of a behaviour return a non-default result
MaxDeviants == 2
\* childEvolutionSteps: the number of time steps of a child trajectory
ChildEvolutionSteps == 2

(* Program constants *)

\* the number of estimates the convergence test reads (main.py 879, 881)
ConvergenceWindow == 10
\* tolerance = 1e-6, the default of computeRecrossingFactor: TolNum / TolDen
TolNum == 1
TolDen == 1000000
\* memory units per unit of the last decimal a checkpoint file keeps
Quantum == 2

----------------------------------------------------------------------------
(* Python and numpy helpers *)

Abs(x) == IF x < 0 THEN -x ELSE x

\* seq[k] of Python: k >= 0 counts from the start (0-based), k < 0 from the end
PyAt(seq, k) == IF k >= 0 THEN seq[k + 1] ELSE seq[Len(seq) + k + 1]

\* n / 2 on Python 2 integers
PyDiv2(n) == n \div 2

\* '{0:.Nf}'.format(x): x rounded to the file's last decimal (in file units)
FormatFixed(x) == (x + Quantum \div 2) \div Quantum

\* float(text): the file's number, in memory units
ParseFixed(v) == v * Quantum

\* a variant that returns the last index of the largest element
ArgMaxLast(A) == CHOOSE i \in 1..Len(A) :
                    /\ \A j \in 1..Len(A) : A[j] <= A[i]
                    /\ \A j \in (i + 1)..Len(A) : A[j] < A[i]

\* numpy.argmax: the first index of the largest element
ArgMax(A) == CHOOSE i \in 1..Len(A) :
                /\ \A j \in 1..Len(A) : A[j] <= A[i]
                /\ \A j \in 1..(i - 1) : A[j] < A[i]

----------------------------------------------------------------------------
(* Inputs *)

\* xi_current of a computeRecrossingFactor call (None: not given), scaled by 10
XiArgs == {None, Some(10)}
\* the time step of a call, in model units
DtArg == 1
\* childTrajectories of a call: in a session of several stage calls, and in a
\* recrossing calculation that is run long enough to converge
SessionBudgets == {2, 4}
ChildBudgets == {2, MaxChildTrajectories}
\* the arguments of a call, when no call is active
NoArgs == [xi_current |-> None, childTrajectories |-> 0,
           childrenPerSampling |-> 0, processes |-> 0, pool |-> FALSE,
           xi_list |-> <<>>, kforce |-> 0, evolutionSteps |-> 0, file |-> None,
           formingBonds |-> <<>>, breakingBonds |-> <<>>]
\* processes of a call
ProcessArgs == {1, 2}
\* the tables a potential_of_mean_force.dat left by an earlier job may hold
PMFFiles == { [xi |-> <<9, 10, 11>>, A |-> <<0, 0, 3>>],
              [xi |-> <<9, 10, 11>>, A |-> <<0, 4, 4>>] }

\* what a child trajectory returns (runRecrossingTrajectory, main.py 68-80):
\* kappa_num over the child's time steps and kappa_denom
ChildResult(x) == [num |-> [t \in 1..ChildEvolutionSteps |->
                               IF t = ChildEvolutionSteps THEN x ELSE Quantum],
                   denom |-> Quantum]
DefaultChild == ChildResult(Quantum)
ChildResults == {ChildResult(x) : x \in {Quantum - 1, Quantum, Quantum + 1}}

RECURSIVE CountDeviants(_)
CountDeviants(rs) ==
    IF rs = <<>> THEN 0
    ELSE (IF Head(rs) = DefaultChild THEN 0 ELSE 1) + CountDeviants(Tail(rs))

----------------------------------------------------------------------------
(* computeRecrossingFactor, main.py 675-918 *)

NeedsPMFAlways(xiArg, pmf) == pmf = None

\* main.py 713-715: the call needs a PMF only when no xi_current is given
NeedsPMF(xiArg, pmf) == xiArg = None /\ pmf = None

\* main.py 716-717: the coordinate of the maximum of the PMF
DefaultXi(pmf) == Val(pmf).xi[ArgMax(Val(pmf).A)]

\* main.py 741-746: the pool, when the call gets as far as using one
MakePool(processes) == processes > 1

\* a variant that never raises for a missing package
PoolUnavailableIgnored(importable, processes) == FALSE

\* main.py 747-749: the import failed and more than one process was asked for
PoolUnavailable(importable, processes) == ~ importable /\ processes > 1

\* the position array after system.recrossing_trajectory has run on it: the
\* propagator advances p and q in place (as equilibrate does, main.py 399-401)
ChildPropagate(pos) == [pos EXCEPT !.child = @ + 1]

\* main.py 836-852: q_child, one array, is handed to both children of a pair.
\* In-process (no pool) the first child's propagator call has already run on
\* it; with a pool each task receives a pickled copy.
SecondChildPosition(pool, q_child) ==
    IF pool THEN q_child ELSE ChildPropagate(q_child)

\* main.py 835-853: the children launched for pair number `child`
LaunchPair(pool, qParent, child) ==
    LET q_child == qParent
    IN << [pair |-> child, sign |-> -1, q |-> q_child],
          [pair |-> child, sign |-> 1, q |-> SecondChildPosition(pool, q_child)] >>

RECURSIVE LaunchAll(_, _, _)
LaunchAll(pool, qParent, pairs) ==
    IF pairs = 0 THEN <<>>
    ELSE LaunchAll(pool, qParent, pairs - 1) \o LaunchPair(pool, qParent, pairs - 1)

\* a variant in which every result replaces the sum instead of being added
SumNumReplace(num, rs, n) == IF n = 0 THEN num ELSE rs[n].num

\* main.py 862-863 over the first n results
RECURSIVE SumNum(_, _, _)
SumNum(num, rs, n) ==
    IF n = 0 THEN num
    ELSE LET s == SumNum(num, rs, n - 1)
         IN [t \in 1..Len(s) |-> s[t] + rs[n].num[t]]
RECURSIVE SumDenom(_, _, _)
SumDenom(denom, rs, n) ==
    IF n = 0 THEN denom ELSE SumDenom(denom, rs, n - 1) + rs[n].denom

\* main.py 884: abs(factor0 - factor) > tolerance * abs(factor), on ratios
Differs(factor0, factor) ==
    Abs(factor0[1] * factor[2] - factor[1] * factor0[2]) * TolDen
        > TolNum * Abs(factor[1]) * factor0[2]

\* main.py 879-886: the value of `done` after the convergence test
Converged(rf) ==
    /\ Len(rf) > ConvergenceWindow
    /\ \A i \in (-ConvergenceWindow)..(-1) :
          ~ Differs(PyAt(rf, -i), PyAt(rf, -1))

\* a variant that goes on until the estimates have converged
LoopOnUntilDone(count, budget, d) == ~ d

\* main.py 827: the loop condition
LoopOn(count, budget, d) == count < budget /\ ~ d

\* a variant that writes the rows after rows the file already had
RecrossingFileAppended(xi, step, num, denom, count) ==
    [xi |-> xi, dt |-> step,
     num |-> [t \in 1..Len(num) |-> FormatFixed(num[t])]
                \o [t \in 1..Len(num) |-> FormatFixed(num[t])],
     denom |-> FormatFixed(denom),
     count |-> count]

\* main.py 1176-1208: the content saveRecrossingFactor writes
RecrossingFileOf(xi, step, num, denom, count) ==
    [xi |-> xi, dt |-> step,
     num |-> [t \in 1..Len(num) |-> FormatFixed(num[t])],
     denom |-> FormatFixed(denom),
     count |-> count]

\* main.py 783: the saved output is used when the parameters match
Compatible(f, xi, step) == f.dt = step /\ f.xi = xi

\* main.py 736-738: the sums a calculation starts from
ZeroSums == [num |-> [t \in 1..ChildEvolutionSteps |-> 0], denom |-> 0, count |-> 0]

\* a variant that starts from zero whatever the checkpoint holds
LoadedSumsDiscarded(saved) == ZeroSums

\* main.py 786-788 with 1260-1268: the sums read from the checkpoint
LoadedSums(saved) ==
    [num |-> [t \in 1..Len(saved.num) |-> ParseFixed(saved.num[t])],
     denom |-> ParseFixed(saved.denom),
     count |-> saved.count]

NoLocals ==
    /\ kappa_num' = <<>>
    /\ kappa_denom' = 0
    /\ childCount' = 0
    /\ parentIter' = 0
    /\ done' = FALSE
    /\ recrossingFactor' = <<>>
    /\ results' = <<>>
    /\ launched' = <<>>
    /\ q' = NoPosition

\* main.py 712-798: from the call to the test that guards the sampling
ComputeRecrossingFactor(xiArg, childTrajectories, childrenPerSampling, processes) ==
    /\ UNCHANGED <<umVars, finished>>
    /\ pc = "idle"
    /\ op' = "computeRecrossingFactor"
    /\ args' = [NoArgs EXCEPT !.xi_current = xiArg,
                              !.childTrajectories = childTrajectories,
                              !.childrenPerSampling = childrenPerSampling,
                              !.processes = processes,
                              !.pool = multiprocessing /\ MakePool(processes)]
    /\ IF NeedsPMF(xiArg, potentialOfMeanForce)
       THEN /\ err' = "RPMDError"
            /\ pc' = "idle"
            /\ NoLocals
            /\ UNCHANGED <<jobVars, fileVars, deviants, rxCompleted, factorXi>>
       ELSE IF PoolUnavailable(multiprocessing, processes)
       THEN /\ dt' = DtArg
            /\ xi_current' = IF xiArg = None THEN DefaultXi(potentialOfMeanForce)
                                             ELSE Val(xiArg)
            /\ thermostat' = "set"
            /\ mode' = 2
            /\ err' = "ValueError"
            /\ pc' = "idle"
            /\ NoLocals
            /\ UNCHANGED <<potentialOfMeanForce, selfRecrossingFactor, fileVars,
                           deviants, rxCompleted, factorXi>>
       ELSE LET xi == IF xiArg = None THEN DefaultXi(potentialOfMeanForce) ELSE Val(xiArg)
                saved == Val(recrossingFile)
                reuse == recrossingFile # None /\ Compatible(saved, xi, DtArg)
                sums == IF reuse THEN LoadedSums(saved) ELSE ZeroSums
                count == sums.count
            IN /\ dt' = DtArg
               /\ xi_current' = xi
               /\ thermostat' = "set"
               /\ mode' = 2
               /\ kappa_num' = sums.num
               /\ kappa_denom' = sums.denom
               /\ childCount' = count
               /\ recrossingFactor' = <<>>
               /\ parentIter' = 0
               /\ done' = FALSE
               /\ results' = <<>>
               /\ launched' = <<>>
               /\ q' = NoPosition
               /\ err' = "none"
               /\ pc' = IF count < childTrajectories THEN "equilibrate" ELSE "finish"
               /\ UNCHANGED <<potentialOfMeanForce, selfRecrossingFactor, fileVars,
                              deviants, rxCompleted, factorXi>>

\* main.py 800-826: the parent trajectory is equilibrated
EquilibrateParent ==
    /\ UNCHANGED <<umVars, finished>>
    /\ pc = "equilibrate"
    /\ q' = [parent |-> 0, child |-> 0]
    /\ parentIter' = 0
    /\ done' = FALSE
    /\ pc' = IF LoopOn(childCount, args.childTrajectories, FALSE)
             THEN "dispatch" ELSE "finish"
    /\ UNCHANGED <<jobVars, op, err, args, kappa_num, kappa_denom, childCount,
                   recrossingFactor, results, launched, deviants, rxCompleted, factorXi, fileVars>>

\* the tasks that have finished when the dispatch loop is over: in-process
\* every task has run inside the loop, with a pool none is known to have
FinishedAtDispatch(pool, n) == IF pool THEN <<>> ELSE [i \in 1..n |-> i]

\* AsyncResult.ready(): task i is among the finished ones
HasFinished(f, i) == \E k \in 1..Len(f) : f[k] = i

\* a child trajectory queued on the pool finishes; the pool runs the tasks of
\* a batch in any order
ChildFinishes(child) ==
    /\ pc = "collect"
    /\ child \in 1..Len(results)
    /\ ~ HasFinished(finished, child)
    /\ finished' = Append(finished, child)
    /\ UNCHANGED <<jobVars, pc, op, err, args, rxVars, rxCompleted, factorXi, fileVars, umVars>>

\* before this job's first call the working directory holds the checkpoint
\* of an earlier recrossing calculation at the same reaction coordinate and
\* time step, whose child trajectories were `steps` time steps long
EarlierRecrossingJob(steps) ==
    /\ pc = "idle"
    /\ op = "none"
    /\ op' = "earlierJob"
    /\ recrossingFile' = Some(RecrossingFileOf(10, DtArg,
                                [t \in 1..steps |-> 2 * Quantum], 2 * Quantum, 2))
    /\ UNCHANGED <<jobVars, pc, err, args, rxVars, rxCompleted, factorXi, pmfFile, rateFile,
                   umVars, finished>>

\* main.py 833-853: the batch's children are launched, two per momentum draw
DispatchChildren(source) ==
    /\ UNCHANGED umVars
    /\ pc = "dispatch"
    /\ LET pairs == PyDiv2(args.childrenPerSampling)
       IN /\ \E rs \in [1..(2 * pairs) -> source] :
                /\ deviants + CountDeviants(rs) <= MaxDeviants
                /\ results' = rs
                /\ deviants' = deviants + CountDeviants(rs)
          /\ launched' = LaunchAll(args.pool, q, pairs)
          /\ finished' = FinishedAtDispatch(args.pool, 2 * pairs)
          /\ childCount' = childCount + 2 * pairs
    /\ pc' = "collect"
    /\ UNCHANGED <<jobVars, op, err, args, kappa_num, kappa_denom, parentIter,
                   done, recrossingFactor, q, rxCompleted, factorXi, fileVars>>

\* main.py 862: numpy adds in place only arrays of one shape (a loaded
\* kappa_num has one entry per row of the checkpoint)
ShapesMatch(num) == Len(num) = ChildEvolutionSteps

\* main.py 855-863: the results are collected and summed; kappa_num += num
\* raises ValueError when the shapes differ, and results[child] raises
\* IndexError when fewer than childrenPerSampling were launched
CollectChildren ==
    /\ UNCHANGED <<umVars, finished>>
    /\ pc = "collect"
    /\ \A child \in 1..Len(results) : HasFinished(finished, child)
    /\ IF args.childrenPerSampling > Len(results)
          \/ (results # <<>> /\ ~ ShapesMatch(kappa_num))
       THEN /\ err' = IF results # <<>> /\ ~ ShapesMatch(kappa_num)
                      THEN "ValueError" ELSE "IndexError"
            /\ pc' = "idle"
            /\ NoLocals
            /\ args' = NoArgs
            /\ UNCHANGED <<jobVars, op, deviants, rxCompleted, factorXi, fileVars>>
       ELSE /\ kappa_num' = SumNum(kappa_num, results, args.childrenPerSampling)
            /\ kappa_denom' = SumDenom(kappa_denom, results, args.childrenPerSampling)
            /\ pc' = "save"
            /\ UNCHANGED <<jobVars, op, err, args, childCount, parentIter, done,
                           recrossingFactor, results, launched, q, deviants, rxCompleted, factorXi, fileVars>>

\* main.py 867-868: the checkpoint is rewritten
SaveRecrossing ==
    /\ UNCHANGED <<umVars, finished>>
    /\ pc = "save"
    /\ recrossingFile' = Some(RecrossingFileOf(xi_current, dt, kappa_num, kappa_denom, childCount))
    /\ pc' = "converge"
    /\ UNCHANGED <<jobVars, op, err, args, rxVars, rxCompleted, factorXi, rateFile, pmfFile>>

\* main.py 878-886: the estimate is recorded and the convergence test made
TestConvergence ==
    /\ UNCHANGED <<umVars, finished>>
    /\ pc = "converge"
    /\ LET rf == Append(recrossingFactor, <<PyAt(kappa_num, -1), kappa_denom>>)
       IN /\ recrossingFactor' = rf
          /\ done' = Converged(rf)
    /\ pc' = "advance"
    /\ UNCHANGED <<jobVars, op, err, args, kappa_num, kappa_denom, childCount,
                   parentIter, results, launched, q, deviants, rxCompleted, factorXi, fileVars>>

\* a variant in which the parent stays where it is
EvolveParentNot(qParent) == qParent

\* main.py 891: system.equilibrate moves p and q of the parent on by
\* childSamplingSteps steps
EvolveParent(qParent) == [qParent EXCEPT !.parent = @ + 1]

\* main.py 888-893: the parent trajectory is evolved by one sampling interval
AdvanceParent ==
    /\ UNCHANGED <<umVars, finished>>
    /\ pc = "advance"
    /\ q' = EvolveParent(q)
    /\ parentIter' = parentIter + 1
    /\ pc' = IF LoopOn(childCount, args.childTrajectories, done)
             THEN "dispatch" ELSE "finish"
    /\ UNCHANGED <<jobVars, op, err, args, kappa_num, kappa_denom, childCount,
                   done, recrossingFactor, results, launched, deviants, rxCompleted, factorXi, fileVars>>

\* main.py 898-918: the result is stored on the object and returned
FinishRecrossing ==
    /\ UNCHANGED <<umVars, finished>>
    /\ pc = "finish"
    /\ selfRecrossingFactor' = <<PyAt(kappa_num, -1), kappa_denom>>
    /\ pc' = "idle"
    /\ NoLocals
    /\ args' = NoArgs
    /\ rxCompleted' = TRUE
    /\ factorXi' = Some(xi_current)
    /\ UNCHANGED <<potentialOfMeanForce, dt, xi_current, thermostat, mode,
                   op, err, deviants, fileVars>>

----------------------------------------------------------------------------
(* loadPotentialOfMeanForce and computeRateCoefficient *)

\* the factor 27.211 between the energies in memory and those in the file
EnergyNum == 27211
EnergyDen == 1000
\* memory units of energy per unit of the last decimal the file keeps
EnergyQuantum == 54

\* '{1:11.10f}'.format(A * 27.211) and float(A) / 27.211
FormatEnergy(a) == (a * EnergyNum + (EnergyDen * EnergyQuantum) \div 2)
                        \div (EnergyDen * EnergyQuantum)
ParseEnergy(v) == (v * EnergyDen * EnergyQuantum + EnergyNum \div 2) \div EnergyNum

\* the rows savePotentialOfMeanForce writes for a table, and their reading
FormatPMF(table) ==
    [xi |-> [n \in 1..Len(table.xi) |-> FormatFixed(table.xi[n])],
     A |-> [n \in 1..Len(table.A) |-> FormatEnergy(table.A[n])]]
ParsePMF(file) ==
    [xi |-> [n \in 1..Len(file.xi) |-> ParseFixed(file.xi[n])],
     A |-> [n \in 1..Len(file.A) |-> ParseEnergy(file.A[n])]]

\* main.py 1085-1117: the table in memory is written to the file
SavePotentialOfMeanForce ==
    /\ UNCHANGED <<umVars, finished>>
    /\ pc = "idle"
    /\ potentialOfMeanForce # None
    /\ op' = "savePotentialOfMeanForce"
    /\ pmfFile' = Some(FormatPMF(Val(potentialOfMeanForce)))
    /\ UNCHANGED <<jobVars, pc, err, args, rxVars, rxCompleted, factorXi, recrossingFile, rateFile>>

\* main.py 1119-1165, for a well-formed file
LoadPotentialOfMeanForce(table) ==
    /\ UNCHANGED <<umVars, finished>>
    /\ pc = "idle"
    /\ op' = "loadPotentialOfMeanForce"
    /\ args' = NoArgs
    /\ potentialOfMeanForce' = Some(ParsePMF(table))
    /\ err' = "none"
    /\ UNCHANGED <<selfRecrossingFactor, dt, xi_current, thermostat, mode,
                   pc, rxVars, rxCompleted, factorXi, fileVars>>

\* the header tag and the parameter names of a potential_of_mean_force.dat
PMFTag == "RPMD potential of mean force"
PMFParams == {"Temperature", "Lower bound of reaction coordinate",
              "Upper bound of reaction coordinate", "Number of bins"}
GoodPMFParams == <<"Temperature", "Lower bound of reaction coordinate",
                   "Upper bound of reaction coordinate", "Number of bins">>

\* files a working directory may hold: with a right or a wrong tag, with the
\* four parameters, with one more, or without the bin count, and with as many
\* rows as the declared bin count, fewer or more
PMFFileContents ==
    [tag : {PMFTag, "RPMD recrossing factor"},
     params : {GoodPMFParams,
               <<"Temperature", "Time step", "Number of bins">>,
               <<"Temperature", "Lower bound of reaction coordinate">>},
     bins : {2, 3, 4},
     rows : {[xi |-> <<18, 20, 22>>, A |-> <<0, 1, 2>>],
             [xi |-> <<18, 20, 22>>, A |-> <<0, 0, 1>>]}]

\* numpy.zeros((2, bins)) with the first n columns filled from the rows read
PartialPMF(file, n) ==
    [xi |-> [k \in 1..file.bins |-> IF k <= n THEN ParseFixed(file.rows.xi[k]) ELSE 0],
     A |-> [k \in 1..file.bins |-> IF k <= n THEN ParseEnergy(file.rows.A[k]) ELSE 0]]

\* what the load ends with: the tag is tested, then every parameter name, then
\* the bin count is used (a NameError if no line gave it), then the table in
\* memory is replaced by zeros and filled row by row; the row after the last
\* one is the closing rule, which float() refuses
LoadError(file) ==
    IF file.tag # PMFTag THEN "RPMDError"
    ELSE IF \E k \in 1..Len(file.params) : file.params[k] \notin PMFParams THEN "RPMDError"
    ELSE IF \A k \in 1..Len(file.params) : file.params[k] # "Number of bins" THEN "NameError"
    ELSE IF Len(file.rows.xi) < file.bins THEN "ValueError"
    ELSE "none"

\* main.py 1119-1165, for any file
LoadPotentialOfMeanForceFile(file) ==
    /\ UNCHANGED <<umVars, finished>>
    /\ pc = "idle"
    /\ op' = "loadPotentialOfMeanForce"
    /\ args' = [NoArgs EXCEPT !.file = Some(file)]
    /\ err' = LoadError(file)
    /\ potentialOfMeanForce' =
            IF LoadError(file) \in {"RPMDError", "NameError"} THEN potentialOfMeanForce
            ELSE Some(PartialPMF(file, IF Len(file.rows.xi) < file.bins
                                       THEN Len(file.rows.xi) ELSE file.bins))
    /\ UNCHANGED <<selfRecrossingFactor, dt, xi_current, thermostat, mode,
                   pc, rxVars, rxCompleted, factorXi, fileVars>>

RatePreconditionBoth(pmf, rf) == pmf = None /\ rf = None

\* main.py 1366: the stage needs a PMF and a recrossing factor
RatePrecondition(pmf, rf) == pmf = None \/ rf = None

\* main.py 1361-1411
ComputeRateCoefficient ==
    /\ UNCHANGED <<umVars, finished>>
    /\ pc = "idle"
    /\ op' = "computeRateCoefficient"
    /\ args' = NoArgs
    /\ IF RatePrecondition(potentialOfMeanForce, selfRecrossingFactor)
       THEN /\ err' = "RPMDError"
            /\ UNCHANGED rateFile
       ELSE /\ err' = "none"
            /\ rateFile' = Some([xi_current |-> xi_current,
                                 recrossingFactor |-> selfRecrossingFactor])
    /\ UNCHANGED <<jobVars, pc, rxVars, rxCompleted, factorXi, recrossingFile, pmfFile>>

----------------------------------------------------------------------------
(* The job: the recrossing and rate stages *)

\* ---------------------------------------------------------------------------
\* Umbrella sampling: the windows, their checkpoint files and the trajectories
\* ---------------------------------------------------------------------------

\* how many Window objects the caller passes
NWindows == 3
\* Window.trajectories: the budget of trajectories of every window
MaxTrajectories == 3
\* evolutionSteps: samples of the reaction coordinate taken by one trajectory
EvolutionSteps == 2
\* equilibrationSteps: the steps a trajectory takes before it samples
EquilibrationSteps == 1
\* how many times computePotentialOfMeanForce is called in one behaviour
MaxUmbrellaCalls == 3

\* the deterministic trajectory sources a job can have
Sources == {1, 2}

\* Window.xi and Window.kforce of the l-th window, in memory units
WindowXi(l) == 20 * (l - 1)
Kforce == 1
\* 1 / self.beta
InvBeta == 100

\* the arguments xi_min, xi_max, bins and tolerance of the call
XiMin == 0 - 20
XiMax == 40
Bins == 4
UTolNum == 1
UTolDen == 10000
\* the tolerances a job can be run with: the default and a coarse one
Tolerances == {[num |-> UTolNum, den |-> UTolDen], [num |-> 1, den |-> 10]}

\* the fixed-point scales of the mean, of the Gaussian weight, of the slope
\* and of the exponent
MeanScale == 10
WeightScale == 1000
SlopeScale == 10
ExpScale == 100

\* a Window as __init__ leaves it
FreshWindow == [av |-> 0, av2 |-> 0, count |-> 0]
FreshWindows == [l \in 1..NWindows |-> FreshWindow]

\* the header create writes, and a header loadUmbrellaSampling rejects
GoodHeader == "RPMD umbrella sampling"
BadHeader == "Not An RPMD File"
\* the parameters the header of a window's checkpoint records (main.py 517-523)
WindowParams == [dt |-> DtArg, kforce |-> Kforce,
                 equilibrationSteps |-> EquilibrationSteps,
                 evolutionSteps |-> EvolutionSteps]
NewUmbrellaFile == [header |-> GoodHeader, params |-> WindowParams, rows |-> <<>>]

\* the t-th sample of the k-th trajectory of window l under source s: source 1
\* repeats the same trajectory, source 2 drifts from one trajectory to the next
Offset(s, l, k, t) ==
    IF s = 1 THEN (IF t % 2 = 1 THEN 10 ELSE 0 - 6)
             ELSE (IF t % 2 = 1 THEN 10 - 3 * k ELSE k * l - 9)
Sample(s, l, k, t) == WindowXi(l) + Offset(s, l, k, t)

RECURSIVE SumSamples(_, _, _, _)
SumSamples(s, l, k, t) ==
    IF t = 0 THEN 0 ELSE Sample(s, l, k, t) + SumSamples(s, l, k, t - 1)

RECURSIVE SumSquares(_, _, _, _)
SumSquares(s, l, k, t) ==
    IF t = 0 THEN 0
    ELSE Sample(s, l, k, t) * Sample(s, l, k, t) + SumSquares(s, l, k, t - 1)

\* runUmbrellaTrajectory: returns dav, dav2, evolutionSteps
RunUmbrellaTrajectory(s, l, k) ==
    [av |-> SumSamples(s, l, k, EvolutionSteps),
     av2 |-> SumSquares(s, l, k, EvolutionSteps),
     count |-> EvolutionSteps]

\* a variant that overwrites the statistics instead of adding to them
AccumulateReplace(w, d) == d

\* window.av += dav; window.av2 += dav2; window.count += dcount
Accumulate(w, d) ==
    [av |-> w.av + d.av, av2 |-> w.av2 + d.av2, count |-> w.count + d.count]

\* a row of the table: '{0:15.8f} {1:15.8f} {2:11d}', and its reading back
FormatRow(w) ==
    [av |-> FormatFixed(w.av), av2 |-> FormatFixed(w.av2), count |-> w.count]
ParseRow(r) ==
    [av |-> ParseFixed(r.av), av2 |-> ParseFixed(r.av2), count |-> r.count]

\* floor of the square root, by bisection between lo and hi
RECURSIVE ISqrtIn(_, _, _)
ISqrtIn(lo, hi, n) ==
    IF hi - lo <= 1 THEN lo
    ELSE CHOOSE r \in {IF mid * mid <= n THEN ISqrtIn(mid, hi, n)
                                          ELSE ISqrtIn(lo, mid, n) :
                           mid \in {(lo + hi) \div 2}} : TRUE
ISqrt(n) == ISqrtIn(0, IF n + 1 < 46340 THEN n + 1 ELSE 46340, n)

\* numpy.exp(-x) for x = num / den >= 0, scaled by WeightScale
ExpNeg(num, den) ==
    LET x == (num * ExpScale) \div den
    IN  (WeightScale * 2 * ExpScale * ExpScale)
            \div (2 * ExpScale * ExpScale + 2 * x * ExpScale + x * x)

\* a variant that leaves out the end point, as numpy.linspace(..., False) does
LinspaceOpen(n) == XiMin + ((n - 1) * (XiMax - XiMin)) \div Bins

\* numpy.linspace(xi_min, xi_max, bins, True)
Linspace(n) == XiMin + ((n - 1) * (XiMax - XiMin)) \div (Bins - 1)
XiList == [n \in 1..Bins |-> Linspace(n)]

\* av / count and av2 / count - av * av of a window, scaled
XiMean(w) == (w.av * MeanScale) \div w.count
XiVar(w) == ((w.av2 * MeanScale) \div w.count) * MeanScale - XiMean(w) * XiMean(w)

\* p[l] and dA0[l] of a window at the grid point xi
Weight(w, xi) ==
    LET d == xi * MeanScale - XiMean(w)
    IN  (ExpNeg(d * d, 2 * XiVar(w)) * MeanScale * MeanScale)
            \div ISqrt(628 * XiVar(w))
Slope0(w, l, xi) ==
    (InvBeta * SlopeScale * MeanScale * (xi * MeanScale - XiMean(w))) \div XiVar(w)
        - Kforce * SlopeScale * (xi - WindowXi(l))

RECURSIVE SumNP(_, _, _)
SumNP(w, xi, l) ==
    IF l = 0 THEN 0 ELSE w[l].count * Weight(w[l], xi) + SumNP(w, xi, l - 1)

RECURSIVE SumNPdA0(_, _, _)
SumNPdA0(w, xi, l) ==
    IF l = 0 THEN 0
    ELSE w[l].count * Weight(w[l], xi) * Slope0(w[l], l, xi) + SumNPdA0(w, xi, l - 1)

\* dA[n] = numpy.sum(N * p * dA0) / numpy.sum(N * p)
Slope(w, n) == SumNPdA0(w, XiList[n], NWindows) \div SumNP(w, XiList[n], NWindows)

\* numpy.trapz over the first m points, times two
RECURSIVE Trapz2(_, _)
Trapz2(w, m) ==
    IF m <= 1 THEN 0
    ELSE (Slope(w, m - 1) + Slope(w, m)) * (XiList[m] - XiList[m - 1])
            + Trapz2(w, m - 1)

\* the division window.av / window.count raises when a window has no sample
PMFDefined(w) == \A l \in 1..NWindows : w[l].count > 0

\* calculatePotentialOfMeanForce: row n is the integral of dA[:n], which leaves
\* out the point n itself
CalculatePotentialOfMeanForce(w) ==
    [xi |-> XiList, A |-> [n \in 1..Bins |-> Trapz2(w, n - 1) \div 2]]

\* numpy.zeros_like of a PMF table
ZerosLike(table) == [table EXCEPT !.A = [n \in 1..Len(table.A) |-> 0]]

\* a variant that always compares against zeros
BaselineZeros(pmf, new) == ZerosLike(new)

\* potentialOfMeanForce0: zeros when self.potentialOfMeanForce was None, else
\* a copy of what it was before the recalculation
Baseline(pmf, new) == IF pmf = None THEN ZerosLike(new) ELSE Val(pmf)

RECURSIVE MaxOf(_, _)
MaxOf(A, n) ==
    IF n = 1 THEN A[1]
    ELSE CHOOSE r \in {IF A[n] > m THEN A[n] ELSE m : m \in {MaxOf(A, n - 1)}} : TRUE

\* error > tolerance * abs(maxPotentialOfMeanForce) at the row n
Diverged(new, old, n) ==
    Abs(new.A[n] - old.A[n]) * tolerance.den
        > tolerance.num * Abs(MaxOf(new.A, Len(new.A)))

\* a variant that never looks at the budget
HasBudgetAlways(w) == TRUE

\* window.count < window.trajectories * evolutionSteps
HasBudget(w) == w.count < MaxTrajectories * EvolutionSteps

\* a variant without the break: every diverged row appends its windows
MarkedWindowsEveryRow(new, old, w) ==
    LET upTo[n \in 1..Len(new.A)] ==
            IF n = 1 THEN <<>>
            ELSE upTo[n - 1] \o
                 (IF Diverged(new, old, n)
                  THEN SelectSeq([l \in 1..NWindows |-> l],
                                 LAMBDA l : /\ WindowXi(l) >= new.xi[n - 1]
                                            /\ HasBudget(w[l]))
                  ELSE <<>>)
    IN  upTo[Len(new.A)]

\* the windows the check appends: at the first diverged row, every window at
\* or after the coordinate of the row before it that has budget left
MarkedWindows(new, old, w) ==
    LET rows == {n \in 2..Len(new.A) : Diverged(new, old, n)}
    IN  IF rows = {} THEN <<>>
        ELSE LET n == CHOOSE r \in rows : \A o \in rows : r <= o
             IN  SelectSeq([l \in 1..NWindows |-> l],
                           LAMBDA l : /\ WindowXi(l) >= new.xi[n - 1]
                                      /\ HasBudget(w[l]))

\* no pass has been dispatched yet
NoPass == [win |-> FreshWindows, files |-> [l \in 1..NWindows |-> None],
           windows |-> <<>>]

\* what has happened to the working directory
NoHistory == [calls |-> 0, reused |-> FALSE, corrupted |-> FALSE, emptyStop |-> FALSE,
              failed |-> FALSE]

\* the first window whose checkpoint loadUmbrellaSampling rejects
FirstBad(files) ==
    LET bad == {l \in 1..NWindows : files[l] # None /\ Val(files[l]).header # GoodHeader}
    IN  IF bad = {} THEN NWindows + 1 ELSE CHOOSE l \in bad : \A o \in bad : l <= o

\* the load loop on one window: add the last row of an existing checkpoint
LoadWindow(w, file) ==
    IF file # None /\ Val(file).rows # <<>>
    THEN Accumulate(w, ParseRow(Val(file).rows[Len(Val(file).rows)]))
    ELSE w

\* ---------------------------------------------------------------------------
\* Equivalent transition states
\* ---------------------------------------------------------------------------

\* the atoms are numbered 1..NAtoms; the object holds at most
\* MaxTransitionStates transition states
NAtoms == 4
MaxTransitionStates == 3

\* the transition state the object is constructed with: atom j of its
\* geometry is known by the number j; one forming and one breaking bond
TransitionState0 ==
    [geometry |-> [j \in 1..NAtoms |-> j],
     formingBonds |-> << <<1, 2>> >>,
     breakingBonds |-> << <<2, 3>> >>]

\* the bond lists a caller may supply: none or one bond between atoms
BondLists == {<<>>} \cup {<< <<a, b>> >> : a \in 1..NAtoms, b \in 1..NAtoms}

\* zip(bonds0, bonds) as the atom pairs the loop body handles in turn: the
\* first atoms of the two bonds, then the second atoms
RECURSIVE BondPairs(_, _, _)
BondPairs(bonds0, bonds, k) ==
    IF k > Len(bonds0) \/ k > Len(bonds) THEN <<>>
    ELSE << <<bonds0[k][1], bonds[k][1]>>, <<bonds0[k][2], bonds[k][2]>> >>
            \o BondPairs(bonds0, bonds, k + 1)

\* the dictionary `mapping` holds 0 for an atom that is not a key
EmptyMapping == [j \in 1..NAtoms |-> 0]

\* main.py 181-184: atom a is mapped to another atom than b, or b to another than a
PairConflictsFirstOnly(m, a, b) == m[a] # 0 /\ m[a] # b
PairConflicts(m, a, b) ==
    \/ m[a] # 0 /\ m[a] # b
    \/ m[b] # 0 /\ m[b] # a

\* the two loops over the bonds: the mapping after the pairs from i on, or
\* None when one of them raises
RECURSIVE MapPairs(_, _, _)
MapPairs(m, pairs, i) ==
    IF i > Len(pairs) THEN Some(m)
    ELSE IF PairConflicts(m, pairs[i][1], pairs[i][2]) THEN None
    ELSE MapPairs([m EXCEPT ![pairs[i][1]] = pairs[i][2], ![pairs[i][2]] = pairs[i][1]],
                  pairs, i + 1)

\* main.py 212-214: every atom that is not a key is mapped to itself
CompleteMapping(m) == [j \in 1..NAtoms |-> IF m[j] = 0 THEN j ELSE m[j]]

\* addEquivalentTransitionState: the mapping is built from the bonds, then the
\* geometry of the first transition state is permuted by it and appended
AddEquivalentTransitionState(formingBonds, breakingBonds) ==
    /\ pc = "idle"
    /\ Len(transitionStates) < MaxTransitionStates
    /\ op' = "addEquivalentTransitionState"
    /\ args' = [NoArgs EXCEPT !.formingBonds = formingBonds,
                              !.breakingBonds = breakingBonds]
    /\ LET ts0 == transitionStates[1]
           pairs == BondPairs(ts0.formingBonds, formingBonds, 1)
                        \o BondPairs(ts0.breakingBonds, breakingBonds, 1)
           mapping == MapPairs(EmptyMapping, pairs, 1)
       IN  IF mapping = None
           THEN /\ err' = "ValueError"
                /\ UNCHANGED transitionStates
           ELSE /\ err' = "none"
                /\ transitionStates' = Append(transitionStates,
                        [geometry |-> [j \in 1..NAtoms |->
                                        ts0.geometry[CompleteMapping(Val(mapping))[j]]],
                         formingBonds |-> formingBonds,
                         breakingBonds |-> breakingBonds])
    /\ UNCHANGED <<jobVars, pc, rxVars, rxCompleted, factorXi, fileVars, finished>>
    /\ UNCHANGED <<win, windows, trajResults, resultCount, passStart, passes, win0, src,
                   tolerance, multiprocessing, history, pmfRepeated, umbrellaFile>>
    /\ UNCHANGED <<job, umbrellaConfigurations, equilibrateLog, configurationsFile>>

\* ---------------------------------------------------------------------------
\* The umbrella configurations
\* ---------------------------------------------------------------------------

\* a reaction coordinate value is held as a whole number of quarters of 1e-6
XiOne == 4000000
XiTolerance == 4

\* the temperatures and bead counts of the jobs that share an output directory
Temperatures == {300, 500}
BeadCounts == {1, 8}
FirstJob == [T |-> 300, Nbeads |-> 1]

\* requested xi lists: 0.95, 1, 1.05; the same within 0.75e-6; the same but
\* for 1.25e-6; a shorter list; a list with a seventh significant digit
XiListA == <<3800000, 4000000, 4200000>>
XiListB == <<3800003, 4000000, 4199997>>
XiListC == <<3800005, 4000000, 4200000>>
XiListD == <<3800000, 4000000>>
XiListE == <<3800000, 4000000, 4200010>>
\* a list that stays below 1 and a list that starts at 1
XiListF == <<3600000, 3800000>>
XiListG == <<4000000, 4200000, 4400000>>
XiLists == {XiListA, XiListB, XiListC, XiListD, XiListE, XiListF, XiListG}
KforceArgs == {1, 2}
EvolutionStepArgs == {1, 2}

\* '{0:g}' keeps six significant digits: six decimals of a value in [0.1, 1),
\* five decimals of a value in [1, 10)
GQuantum(x) == IF x >= XiOne THEN 40 ELSE 4
FormatG(x) == ((x + GQuantum(x) \div 2) \div GQuantum(x)) * GQuantum(x)

\* a geometry is known by the equilibrations that led to it from the transition
\* state geometry, by whether its centre of mass has been moved to the origin
\* and by whether its coordinates have gone through '{0:11.6f}'
TSGeometry == [path |-> <<>>, centred |-> FALSE, rounded |-> FALSE]
Equilibrate(g, xi, kforce, steps) ==
    [g EXCEPT !.path = Append(@, [xi |-> xi, kforce |-> kforce, steps |-> steps])]
cleanGeometry(g) == [g EXCEPT !.centred = TRUE]
FormatGeometry(g) == [g EXCEPT !.rounded = TRUE]

\* a variant that always starts at the last window
StartWindowLast(xi_list) == Len(xi_list)

\* the first window at or above xi = 1; the last window when there is none
\* (the loop variable keeps its last value)
StartWindow(xi_list) ==
    IF \E l \in 1..Len(xi_list) : xi_list[l] >= XiOne
    THEN CHOOSE l \in 1..Len(xi_list) :
            /\ xi_list[l] >= XiOne
            /\ \A k \in 1..(l - 1) : xi_list[k] < XiOne
    ELSE Len(xi_list)

\* the windows in the order in which they are equilibrated: from the start
\* window upwards, then from the one below the start window downwards
EquilibrateOrder(start, n) ==
    [i \in 1..n |-> IF i <= n - start + 1 THEN start + i - 1
                    ELSE start - (i - (n - start + 1))]

\* q_initial[:,:,l]: the start window is equilibrated from the transition
\* state geometry, every other window from the result of its neighbour on the
\* side of the start window
RECURSIVE QInitial(_, _, _, _, _)
QInitial(xi_list, kforce, steps, start, l) ==
    Equilibrate(IF l = start THEN TSGeometry
                ELSE IF l > start THEN QInitial(xi_list, kforce, steps, start, l - 1)
                ELSE QInitial(xi_list, kforce, steps, start, l + 1),
                xi_list[l], kforce, steps)

\* the array q when the i-th equilibrate call is made: the transition state
\* geometry at first, then what the call before left in it, but for the first
\* call of the downward loop, before which q is set to q_initial[:,:,start]
QBefore(xi_list, kforce, steps, start, order, i) ==
    IF i = 1 THEN TSGeometry
    ELSE IF order[i] = start - 1 THEN QInitial(xi_list, kforce, steps, start, start)
    ELSE QInitial(xi_list, kforce, steps, start, order[i - 1])

\* saveUmbrellaConfigurations: the header and one block per configuration
SaveUmbrellaConfigurations(j, timeStep, configurations, steps) ==
    [T |-> j.T, Nbeads |-> j.Nbeads, dt |-> timeStep, evolutionSteps |-> steps,
     rows |-> [l \in 1..Len(configurations) |->
                [xi |-> FormatG(configurations[l].xi),
                 q |-> FormatGeometry(configurations[l].q)]]]

\* loadUmbrellaConfigurations returns the xi list, the geometries and the
\* number of steps; temperature, bead count and time step are parsed and dropped
LoadUmbrellaConfigurations(f) ==
    [xi_list |-> [l \in 1..Len(f.rows) |-> f.rows[l].xi],
     q_initial |-> [l \in 1..Len(f.rows) |-> f.rows[l].q],
     equilibrationSteps |-> f.evolutionSteps]

\* main.py 352: same shape and every difference below 1e-6
XiListsMatchExactly(xi_list, xi_list0) == xi_list = xi_list0
XiListsMatch(xi_list, xi_list0) ==
    /\ Len(xi_list) = Len(xi_list0)
    /\ \A l \in 1..Len(xi_list) :
            xi_list[l] - xi_list0[l] < XiTolerance /\ xi_list0[l] - xi_list[l] < XiTolerance

\* generateUmbrellaConfigurations: the parameters are set, then either the
\* configurations of the file are taken over and the call returns, or every
\* window is equilibrated and the file is written anew
GenerateUmbrellaConfigurations(xi_list, kforce, evolutionSteps) ==
    /\ pc = "idle"
    /\ op' = "generateUmbrellaConfigurations"
    /\ err' = "none"
    /\ args' = [NoArgs EXCEPT !.xi_list = xi_list, !.kforce = kforce,
                              !.evolutionSteps = evolutionSteps]
    /\ dt' = DtArg
    /\ thermostat' = "set"
    /\ mode' = 1
    /\ IF /\ configurationsFile # None
          /\ XiListsMatch(xi_list, LoadUmbrellaConfigurations(Val(configurationsFile)).xi_list)
       THEN LET loaded == LoadUmbrellaConfigurations(Val(configurationsFile))
            IN  /\ umbrellaConfigurations' = Some([l \in 1..Len(xi_list) |->
                        [xi |-> loaded.xi_list[l], q |-> cleanGeometry(loaded.q_initial[l])]])
                /\ equilibrateLog' = <<>>
                /\ UNCHANGED configurationsFile
       ELSE LET start == StartWindow(xi_list)
                order == EquilibrateOrder(start, Len(xi_list))
                configurations == [l \in 1..Len(xi_list) |->
                        [xi |-> xi_list[l],
                         q |-> cleanGeometry(QInitial(xi_list, kforce, evolutionSteps, start, l))]]
            IN  /\ equilibrateLog' = [i \in 1..Len(xi_list) |->
                        [l |-> order[i], xi |-> xi_list[order[i]], kforce |-> kforce,
                         steps |-> evolutionSteps,
                         from |-> QBefore(xi_list, kforce, evolutionSteps, start, order, i).path]]
                /\ umbrellaConfigurations' = Some(configurations)
                /\ configurationsFile' =
                        Some(SaveUmbrellaConfigurations(job, DtArg, configurations, evolutionSteps))
    /\ UNCHANGED <<potentialOfMeanForce, selfRecrossingFactor, xi_current, pc, job,
                   transitionStates>>
    /\ UNCHANGED <<rxVars, rxCompleted, factorXi, fileVars, finished>>
    /\ UNCHANGED <<win, windows, trajResults, resultCount, passStart, passes, win0, src,
                   tolerance, multiprocessing, history, pmfRepeated, umbrellaFile>>

\* a new RPMD object for a temperature and bead count not used before: its
\* working directory holds no file yet, the configurations file of the
\* top-level directory is the one the earlier jobs left
NewJob(T, Nbeads) ==
    /\ pc = "idle"
    /\ T > job.T \/ (T = job.T /\ Nbeads > job.Nbeads)
    /\ job' = [T |-> T, Nbeads |-> Nbeads]
    /\ potentialOfMeanForce' = None
    /\ selfRecrossingFactor' = None
    /\ dt' = 0
    /\ xi_current' = 0
    /\ thermostat' = "unset"
    /\ mode' = 0
    /\ op' = "newJob"
    /\ err' = "none"
    /\ args' = NoArgs
    /\ NoLocals
    /\ deviants' = 0
    /\ rxCompleted' = FALSE
    /\ factorXi' = None
    /\ win' = FreshWindows
    /\ windows' = <<>>
    /\ finished' = <<>>
    /\ trajResults' = <<>>
    /\ resultCount' = 0
    /\ passStart' = NoPass
    /\ passes' = 0
    /\ win0' = FreshWindows
    /\ pmfRepeated' = FALSE
    /\ history' = NoHistory
    /\ umbrellaConfigurations' = None
    /\ equilibrateLog' = <<>>
    /\ umbrellaFile' = [l \in 1..NWindows |-> None]
    /\ pmfFile' = None
    /\ recrossingFile' = None
    /\ rateFile' = None
    /\ transitionStates' = <<TransitionState0>>
    /\ UNCHANGED <<pc, src, tolerance, multiprocessing, configurationsFile>>

\* main.py 446: `not self.umbrellaConfigurations` is true of None and of []
HasConfigurations(c) == c # None /\ Val(c) # <<>>

\* computePotentialOfMeanForce up to the while loop: without configurations
\* the call raises RPMDError at once; otherwise the parameters, the pool
\* (without one the call ends before the first window, window 0), then the
\* load loop, which stops at the first rejected checkpoint
ComputePotentialOfMeanForce(processes) ==
    /\ pc = "idle"
    /\ history.calls < MaxUmbrellaCalls
    /\ op' = "computePotentialOfMeanForce"
    /\ args' = [NoArgs EXCEPT !.processes = processes,
                              !.pool = multiprocessing /\ MakePool(processes)]
    /\ IF ~ HasConfigurations(umbrellaConfigurations)
       THEN /\ err' = "RPMDError"
            /\ win0' = win
            /\ UNCHANGED <<jobVars, pc, rxVars, rxCompleted, factorXi, fileVars, finished>>
            /\ UNCHANGED <<win, windows, trajResults, resultCount, passStart, passes, src,
                           tolerance, multiprocessing, cfgVars, history, pmfRepeated, umbrellaFile>>
       ELSE /\ dt' = DtArg
            /\ thermostat' = "set"
            /\ mode' = 1
            /\ win0' = win
            /\ LET bad == IF PoolUnavailable(multiprocessing, processes)
                          THEN 0 ELSE FirstBad(umbrellaFile)
               IN  /\ win' = [l \in 1..NWindows |->
                                IF l < bad THEN LoadWindow(win[l], umbrellaFile[l]) ELSE win[l]]
                   /\ umbrellaFile' = [l \in 1..NWindows |->
                                IF l < bad /\ umbrellaFile[l] = None
                                THEN Some(NewUmbrellaFile) ELSE umbrellaFile[l]]
                   /\ windows' = IF bad <= NWindows THEN <<>>
                                 ELSE SelectSeq([l \in 1..NWindows |-> l],
                                                LAMBDA l : umbrellaFile[l] = None)
                   /\ err' = IF bad = 0 THEN "ValueError"
                             ELSE IF bad <= NWindows THEN "RPMDError" ELSE "none"
                   /\ pc' = IF bad <= NWindows THEN "idle" ELSE "sample"
            /\ history' = [history EXCEPT !.calls = @ + 1,
                                          !.reused = @ \/ win # FreshWindows]
            /\ passes' = 0
            /\ trajResults' = <<>>
            /\ resultCount' = 0
            /\ passStart' = NoPass
            /\ pmfRepeated' = FALSE
            /\ finished' = <<>>
            /\ UNCHANGED <<potentialOfMeanForce, selfRecrossingFactor, xi_current, src, tolerance,
                           multiprocessing, cfgVars>>
            /\ UNCHANGED <<rxVars, rxCompleted, factorXi, fileVars>>

\* what a task that raised leaves in place of its result
FailedTrajectory == [av |-> 0, av2 |-> 0, count |-> 0, ok |-> FALSE]

\* the result of a task that returned
Returned(r) == [av |-> r.av, av2 |-> r.av2, count |-> r.count, ok |-> TRUE]

\* one trajectory for each window that needs more sampling; the task `fail`
\* of the pass raises (0: none does).  In-process a task runs inside the
\* dispatch loop, so its exception ends the call there; with a pool every
\* task is queued and the exception waits in its result
DispatchTrajectories(fail) ==
    /\ pc = "sample"
    /\ fail \in 0..Len(windows)
    /\ IF fail > 0 /\ ~ args.pool
       THEN /\ err' = "TrajectoryError"
            /\ pc' = "idle"
            /\ history' = [history EXCEPT !.failed = TRUE]
            /\ passStart' = [win |-> win, files |-> umbrellaFile, windows |-> windows]
            /\ UNCHANGED <<trajResults, resultCount, finished>>
       ELSE /\ trajResults' = [i \in 1..Len(windows) |->
                    IF i = fail THEN FailedTrajectory
                    ELSE Returned(RunUmbrellaTrajectory(src, windows[i],
                                    Len(Val(umbrellaFile[windows[i]]).rows)))]
            /\ resultCount' = 0
            /\ finished' = FinishedAtDispatch(args.pool, Len(windows))
            /\ passStart' = [win |-> win, files |-> umbrellaFile, windows |-> windows]
            /\ pc' = "gather"
            /\ err' = "none"
            /\ UNCHANGED history
    /\ UNCHANGED <<jobVars, op, args, rxVars, rxCompleted, factorXi, fileVars>>
    /\ UNCHANGED <<win, windows, passes, win0, src, tolerance, multiprocessing, cfgVars, pmfRepeated, umbrellaFile>>

\* a trajectory queued on the pool finishes (it returns or raises); the pool
\* runs the tasks of a pass in any order
TaskFinishes(i) ==
    /\ pc = "gather"
    /\ i \in 1..Len(trajResults)
    /\ ~ HasFinished(finished, i)
    /\ finished' = Append(finished, i)
    /\ UNCHANGED <<jobVars, pc, op, err, args, rxVars, rxCompleted, factorXi, fileVars, umVars>>

\* one turn of the collecting loop: the next result is taken (with a pool,
\* get() blocks until the task has finished, or raises what the task raised),
\* added to its window, and the window's row is appended to its file
CollectTrajectory ==
    /\ pc = "gather"
    /\ resultCount < Len(windows)
    /\ HasFinished(finished, resultCount + 1)
    /\ UNCHANGED finished
    /\ LET l == windows[resultCount + 1]
           r == trajResults[resultCount + 1]
           after == Accumulate(win[l], [av |-> r.av, av2 |-> r.av2, count |-> r.count])
       IN  IF r.ok
           THEN /\ win' = [win EXCEPT ![l] = after]
                /\ umbrellaFile' = [umbrellaFile EXCEPT ![l] =
                        Some([Val(@) EXCEPT !.rows = Append(@, FormatRow(after))])]
                /\ resultCount' = resultCount + 1
                /\ UNCHANGED <<pc, err, history>>
           ELSE /\ err' = "TrajectoryError"
                /\ pc' = "idle"
                /\ history' = [history EXCEPT !.failed = TRUE]
                /\ UNCHANGED <<win, umbrellaFile, resultCount>>
    /\ UNCHANGED <<jobVars, op, args, rxVars, rxCompleted, factorXi, fileVars>>
    /\ UNCHANGED <<windows, trajResults, passStart, passes, win0, src, tolerance, multiprocessing, cfgVars, pmfRepeated>>

\* the collecting loop is over: the work list is emptied and the pass is done
CollectTrajectories ==
    /\ UNCHANGED finished
    /\ pc = "gather"
    /\ resultCount = Len(windows)
    /\ windows' = <<>>
    /\ passes' = passes + 1
    /\ pc' = "check"
    /\ UNCHANGED <<jobVars, op, err, args, rxVars, rxCompleted, factorXi, fileVars>>
    /\ UNCHANGED <<win, trajResults, resultCount, passStart, win0, src, tolerance, multiprocessing, cfgVars, history,
                   pmfRepeated, umbrellaFile>>

\* the convergence check that ends every pass
CheckConvergence ==
    /\ UNCHANGED finished
    /\ pc = "check"
    /\ IF PMFDefined(win)
       THEN \E new \in {CalculatePotentialOfMeanForce(win)} :
            \E old \in {Baseline(potentialOfMeanForce, new)} :
            \E marked \in {MarkedWindows(new, old, win)} :
                /\ potentialOfMeanForce' = Some(new)
                /\ pmfFile' = Some(FormatPMF(new))
                /\ windows' = marked
                /\ pc' = IF marked = <<>> THEN "final" ELSE "sample"
                /\ pmfRepeated' = (potentialOfMeanForce = Some(new))
                /\ err' = "none"
       ELSE /\ err' = "ZeroDivisionError"
            /\ pc' = "idle"
            /\ UNCHANGED <<potentialOfMeanForce, pmfFile, windows, pmfRepeated>>
    /\ UNCHANGED <<selfRecrossingFactor, dt, xi_current, thermostat, mode>>
    /\ UNCHANGED <<op, args, rxVars, rxCompleted, factorXi, recrossingFile, rateFile>>
    /\ UNCHANGED <<win, trajResults, resultCount, passStart, passes, win0, src, tolerance, multiprocessing, cfgVars, history,
                   umbrellaFile>>

\* the final calculation after the loop
FinalPotentialOfMeanForce ==
    /\ pc = "final"
    /\ \E new \in {CalculatePotentialOfMeanForce(win)} :
            /\ potentialOfMeanForce' = Some(new)
            /\ pmfFile' = Some(FormatPMF(new))
    /\ pc' = "idle"
    /\ UNCHANGED <<selfRecrossingFactor, dt, xi_current, thermostat, mode>>
    /\ UNCHANGED <<op, err, args, rxVars, rxCompleted, factorXi, recrossingFile, rateFile, umVars,
                   finished>>

\* the caller builds fresh Window objects for the next call on the same RPMD
NewWindows ==
    /\ UNCHANGED finished
    /\ pc = "idle"
    /\ win # FreshWindows
    /\ win' = FreshWindows
    /\ op' = "newWindows"
    /\ history' = [history EXCEPT !.emptyStop =
            @ \/ \E l \in 1..NWindows :
                    umbrellaFile[l] # None /\ Val(umbrellaFile[l]).rows = <<>>]
    /\ UNCHANGED <<jobVars, pc, err, args, rxVars, rxCompleted, factorXi, fileVars>>
    /\ UNCHANGED <<windows, trajResults, resultCount, passStart, passes, win0, src, tolerance, multiprocessing, cfgVars,
                   pmfRepeated, umbrellaFile>>

\* the process is stopped between two passes, or ends after the call, and a new
\* one starts on the same working directory: only the files survive
NewProcess ==
    /\ pc \in {"idle", "sample"}
    /\ op = "computePotentialOfMeanForce"
    /\ potentialOfMeanForce' = None
    /\ selfRecrossingFactor' = None
    /\ dt' = 0
    /\ xi_current' = 0
    /\ thermostat' = "unset"
    /\ mode' = 0
    /\ pc' = "idle"
    /\ op' = "newProcess"
    /\ err' = "none"
    /\ args' = NoArgs
    /\ NoLocals
    /\ deviants' = 0
    /\ rxCompleted' = FALSE
    /\ factorXi' = None
    /\ win' = FreshWindows
    /\ windows' = <<>>
    /\ finished' = <<>>
    /\ trajResults' = <<>>
    /\ resultCount' = 0
    /\ passStart' = NoPass
    /\ passes' = 0
    /\ win0' = FreshWindows
    /\ pmfRepeated' = FALSE
    /\ history' = [history EXCEPT !.emptyStop =
            @ \/ \E l \in 1..NWindows :
                    umbrellaFile[l] # None /\ Val(umbrellaFile[l]).rows = <<>>]
    /\ umbrellaConfigurations' = None
    /\ equilibrateLog' = <<>>
    /\ transitionStates' = <<TransitionState0>>
    /\ UNCHANGED <<src, tolerance, multiprocessing, job, configurationsFile, umbrellaFile,
                   fileVars>>

\* the parameters of an earlier job that differ from this job's in the time
\* step, the force constant or a step count
OtherParams ==
    { [WindowParams EXCEPT !.dt = 2 * DtArg],
      [WindowParams EXCEPT !.kforce = Kforce + 1],
      [WindowParams EXCEPT !.equilibrationSteps = EquilibrationSteps + 1],
      [WindowParams EXCEPT !.evolutionSteps = EvolutionSteps + 1] }

\* the checkpoint a job with parameters p leaves for window l after one
\* trajectory
EarlierCheckpoint(l, p) ==
    [header |-> GoodHeader, params |-> p,
     rows |-> << [FormatRow(RunUmbrellaTrajectory(2, l, 0))
                    EXCEPT !.count = p.evolutionSteps] >>]

\* before this job's first call the working directory holds the checkpoints
\* of an earlier job with parameters p, for the windows in `have`
EarlierJob(p, have) ==
    /\ UNCHANGED finished
    /\ pc = "idle"
    /\ op = "none"
    /\ op' = "earlierJob"
    /\ umbrellaFile' = [l \in 1..NWindows |->
            IF l \in have THEN Some(EarlierCheckpoint(l, p)) ELSE None]
    /\ UNCHANGED <<jobVars, pc, err, args, rxVars, rxCompleted, factorXi, fileVars>>
    /\ UNCHANGED <<win, windows, trajResults, resultCount, passStart, passes, win0, src,
                   tolerance, multiprocessing, cfgVars, history, pmfRepeated>>

\* something else overwrites the header of a window's checkpoint
CorruptCheckpoint(l) ==
    /\ UNCHANGED finished
    /\ pc = "idle"
    /\ umbrellaFile[l] # None
    /\ Val(umbrellaFile[l]).header = GoodHeader
    /\ umbrellaFile' = [umbrellaFile EXCEPT ![l] = Some([Val(@) EXCEPT !.header = BadHeader])]
    /\ history' = [history EXCEPT !.corrupted = TRUE]
    /\ UNCHANGED <<jobVars, pc, op, err, args, rxVars, rxCompleted, factorXi, fileVars>>
    /\ UNCHANGED <<win, windows, trajResults, resultCount, passStart, passes, win0, src, tolerance, multiprocessing, cfgVars,
                   pmfRepeated>>


InitWith(pmf, source, tol, importable) ==
    /\ potentialOfMeanForce = pmf
    /\ selfRecrossingFactor = None
    /\ dt = 0
    /\ xi_current = 0
    /\ thermostat = "unset"
    /\ mode = 0
    /\ pc = "idle"
    /\ op = "none"
    /\ err = "none"
    /\ args = NoArgs
    /\ kappa_num = <<>>
    /\ kappa_denom = 0
    /\ childCount = 0
    /\ parentIter = 0
    /\ done = FALSE
    /\ recrossingFactor = <<>>
    /\ results = <<>>
    /\ launched = <<>>
    /\ q = NoPosition
    /\ deviants = 0
    /\ rxCompleted = FALSE
    /\ factorXi = None
    /\ win = FreshWindows
    /\ windows = <<>>
    /\ trajResults = <<>>
    /\ resultCount = 0
    /\ passStart = NoPass
    /\ passes = 0
    /\ win0 = FreshWindows
    /\ src = source
    /\ tolerance = tol
    /\ multiprocessing = importable
    /\ job = FirstJob
    /\ umbrellaConfigurations = None
    /\ equilibrateLog = <<>>
    /\ configurationsFile = None
    /\ transitionStates = <<TransitionState0>>
    /\ history = NoHistory
    /\ pmfRepeated = FALSE
    /\ finished = <<>>
    /\ umbrellaFile = [l \in 1..NWindows |-> None]
    /\ pmfFile = None
    /\ recrossingFile = None
    /\ rateFile = None

\* the state after construction, for a job run with the default tolerance
Init == InitWith(None, 1, [num |-> UTolNum, den |-> UTolDen], TRUE)

\* the same for any trajectory source and tolerance
InitUmbrella ==
    \E source \in Sources, tol \in Tolerances : InitWith(None, source, tol, TRUE)

\* the tables the round trip through the file is tried on: three-point grids,
\* some of them with coordinates between two values the file can hold
PMFGrids == {<<0 - 20, 0, 20>>, <<0, 5, 10>>, <<18, 20, 22>>, <<1, 2, 3>>}
PMFValues == (0 - 3)..3
PMFTables == {[xi |-> g, A |-> <<0, a, b>>] : g \in PMFGrids, a \in PMFValues, b \in PMFValues}

\* a job that holds one of these tables in memory
InitPMFFile ==
    \E t \in PMFTables : InitWith(Some(t), 1, [num |-> UTolNum, den |-> UTolDen], TRUE)

\* a session: the stages are called in any order, with any arguments
Next ==
    \/ \E xiArg \in XiArgs, ct \in SessionBudgets,
          cps \in 1..MaxChildrenPerSampling, processes \in ProcessArgs :
            ComputeRecrossingFactor(xiArg, ct, cps, processes)
    \/ EquilibrateParent
    \/ DispatchChildren({DefaultChild})
    \/ \E child \in 1..MaxChildrenPerSampling : ChildFinishes(child)
    \/ CollectChildren
    \/ SaveRecrossing
    \/ TestConvergence
    \/ AdvanceParent
    \/ FinishRecrossing
    \/ \E table \in PMFFiles : LoadPotentialOfMeanForce(table)
    \/ ComputeRateCoefficient

Spec == Init /\ [][Next]_vars

\* a recrossing calculation at a given xi_current, run, stopped at its child
\* budget and resumed, with child trajectories whose results vary
NextRecrossing ==
    \/ \E ct \in ChildBudgets, cps \in 1..MaxChildrenPerSampling,
          processes \in ProcessArgs :
            ComputeRecrossingFactor(Some(10), ct, cps, processes)
    \/ EquilibrateParent
    \/ DispatchChildren(ChildResults)
    \/ \E child \in 1..MaxChildrenPerSampling : ChildFinishes(child)
    \/ CollectChildren
    \/ SaveRecrossing
    \/ TestConvergence
    \/ AdvanceParent
    \/ FinishRecrossing

SpecRecrossing == Init /\ [][NextRecrossing]_vars

\* the same, where a call that has started keeps running: every trajectory
\* returns and every statement of the call is eventually executed
SpecRecrossingLive ==
    /\ Init
    /\ [][NextRecrossing]_vars
    /\ WF_vars(EquilibrateParent)
    /\ WF_vars(DispatchChildren(ChildResults))
    /\ WF_vars(\E child \in 1..MaxChildrenPerSampling : ChildFinishes(child))
    /\ WF_vars(CollectChildren)
    /\ WF_vars(SaveRecrossing)
    /\ WF_vars(TestConvergence)
    /\ WF_vars(AdvanceParent)
    /\ WF_vars(FinishRecrossing)

\* the umbrella sampling stage alone, on one working directory: calls, stops
\* between passes, new processes, fresh windows and a damaged checkpoint
NextUmbrella ==
    \/ GenerateUmbrellaConfigurations(XiListA, 1, 1)
    \/ \E processes \in ProcessArgs : ComputePotentialOfMeanForce(processes)
    \/ \E fail \in 0..NWindows : DispatchTrajectories(fail)
    \/ \E i \in 1..NWindows : TaskFinishes(i)
    \/ CollectTrajectory
    \/ CollectTrajectories
    \/ CheckConvergence
    \/ FinalPotentialOfMeanForce
    \/ NewWindows
    \/ NewProcess
    \/ \E l \in 1..NWindows : CorruptCheckpoint(l)

SpecUmbrella == InitUmbrella /\ [][NextUmbrella]_vars

\* the two sampling stages, run in-process or on a pool whose tasks finish in
\* any order, with trajectories that all return
NextPool ==
    \/ GenerateUmbrellaConfigurations(XiListA, 1, 1)
    \/ \E processes \in ProcessArgs : ComputePotentialOfMeanForce(processes)
    \/ DispatchTrajectories(0)
    \/ \E i \in 1..NWindows : TaskFinishes(i)
    \/ CollectTrajectory
    \/ CollectTrajectories
    \/ CheckConvergence
    \/ FinalPotentialOfMeanForce
    \/ \E ct \in SessionBudgets, processes \in ProcessArgs :
            ComputeRecrossingFactor(Some(10), ct, 2, processes)
    \/ EquilibrateParent
    \/ DispatchChildren(ChildResults)
    \/ \E child \in 1..MaxChildrenPerSampling : ChildFinishes(child)
    \/ CollectChildren
    \/ SaveRecrossing
    \/ TestConvergence
    \/ AdvanceParent
    \/ FinishRecrossing

SpecPool == Init /\ [][NextPool]_vars

\* the two sampling stages in an installation without the multiprocessing
\* package, called with processes = 1 and with processes > 1
InitNoPool == InitWith(None, 1, [num |-> UTolNum, den |-> UTolDen], FALSE)

NextNoPool ==
    \/ GenerateUmbrellaConfigurations(XiListA, 1, 1)
    \/ \E processes \in ProcessArgs : ComputePotentialOfMeanForce(processes)
    \/ DispatchTrajectories(0)
    \/ CollectTrajectory
    \/ CollectTrajectories
    \/ CheckConvergence
    \/ FinalPotentialOfMeanForce
    \/ \E ct \in SessionBudgets, processes \in ProcessArgs :
            ComputeRecrossingFactor(Some(10), ct, 2, processes)
    \/ EquilibrateParent
    \/ DispatchChildren(ChildResults)
    \/ CollectChildren
    \/ SaveRecrossing
    \/ TestConvergence
    \/ AdvanceParent
    \/ FinishRecrossing

SpecNoPool == InitNoPool /\ [][NextNoPool]_vars

\* the umbrella sampling stage on a working directory that holds checkpoints
\* of an earlier job, with the same or with other parameters
NextEarlierJob ==
    \/ \E p \in {WindowParams} \cup OtherParams, have \in SUBSET (1..NWindows) :
            have # {} /\ EarlierJob(p, have)
    \/ GenerateUmbrellaConfigurations(XiListA, 1, 1)
    \/ \E processes \in ProcessArgs : ComputePotentialOfMeanForce(processes)
    \/ DispatchTrajectories(0)
    \/ \E i \in 1..NWindows : TaskFinishes(i)
    \/ CollectTrajectory
    \/ CollectTrajectories
    \/ CheckConvergence
    \/ FinalPotentialOfMeanForce

SpecEarlierJob == Init /\ [][NextEarlierJob]_vars

\* the recrossing stage on a working directory that holds the checkpoint of
\* an earlier calculation, with child trajectories of the same or another length
NextEarlierRecrossing ==
    \/ \E steps \in {ChildEvolutionSteps, ChildEvolutionSteps + 1} :
            EarlierRecrossingJob(steps)
    \/ \E ct \in SessionBudgets, cps \in 1..MaxChildrenPerSampling,
          processes \in ProcessArgs :
            ComputeRecrossingFactor(Some(10), ct, cps, processes)
    \/ EquilibrateParent
    \/ DispatchChildren(ChildResults)
    \/ \E child \in 1..MaxChildrenPerSampling : ChildFinishes(child)
    \/ CollectChildren
    \/ SaveRecrossing
    \/ TestConvergence
    \/ AdvanceParent
    \/ FinishRecrossing

SpecEarlierRecrossing == Init /\ [][NextEarlierRecrossing]_vars

\* the configurations stage alone, called by successive jobs of one output
\* directory with xi lists that agree with the file, differ from it by less or
\* by more than 1e-6, differ in length, or do not survive '{0:g}'
NextConfigurations ==
    \/ \E xi_list \in XiLists, kforce \in KforceArgs, evolutionSteps \in EvolutionStepArgs :
            GenerateUmbrellaConfigurations(xi_list, kforce, evolutionSteps)
    \/ \E T \in Temperatures, Nbeads \in BeadCounts : NewJob(T, Nbeads)

SpecConfigurations == Init /\ [][NextConfigurations]_vars

\* the PMF table and its file alone: the table is saved and read back
NextPMFFile ==
    \/ SavePotentialOfMeanForce
    \/ pmfFile # None /\ LoadPotentialOfMeanForce(Val(pmfFile))

SpecPMFFile == InitPMFFile /\ [][NextPMFFile]_vars

\* equivalent transition states are added to a new object, with any bonds
NextTransitionStates ==
    \E formingBonds \in BondLists, breakingBonds \in BondLists :
        AddEquivalentTransitionState(formingBonds, breakingBonds)

SpecTransitionStates == Init /\ [][NextTransitionStates]_vars

\* a job that holds a table in memory and loads files of any content
NextPMFLoad ==
    \E file \in PMFFileContents : LoadPotentialOfMeanForceFile(file)

SpecPMFLoad == InitPMFFile /\ [][NextPMFLoad]_vars

\* the same, where a call that has started keeps running: every statement of
\* the loop is eventually executed unless the process is stopped
SpecUmbrellaLive ==
    /\ InitUmbrella
    /\ [][NextUmbrella]_vars
    /\ WF_vars(\E fail \in 0..NWindows : DispatchTrajectories(fail))
    /\ WF_vars(\E i \in 1..NWindows : TaskFinishes(i))
    /\ WF_vars(CollectTrajectory)
    /\ WF_vars(CollectTrajectories)
    /\ WF_vars(CheckConvergence)
    /\ WF_vars(FinalPotentialOfMeanForce)

----------------------------------------------------------------------------
(* The claims about the recrossing and rate stages *)

\* the state right after the convergence test of a batch
AfterTest == pc = "advance"

\* C3: when every child trajectory returns the same contribution, the
\* convergence test stops the loop after exactly 10 recorded estimates: not
\* before the 10th, and at the 10th.
C3_StopsAfterTenEstimates ==
    (AfterTest /\ deviants = 0) =>
        /\ Len(recrossingFactor) <= ConvergenceWindow
        /\ (done <=> Len(recrossingFactor) = ConvergenceWindow)

\* |factor0 - factor| < tolerance * |factor|, on ratios
Close(factor0, factor) ==
    Abs(factor0[1] * factor[2] - factor[1] * factor0[2]) * TolDen
        < TolNum * Abs(factor[1]) * factor0[2]

\* each of the last 10 estimates is close to the most recent one
LastTenClose(rf) ==
    \A k \in (Len(rf) - ConvergenceWindow + 1)..Len(rf) : Close(rf[k], rf[Len(rf)])

\* C4: the stop decision after a batch depends only on the 10 most recent
\* estimates: with more than 10 estimates recorded, the loop stops on
\* convergence if and only if each of the last 10 is within tolerance of the
\* most recent one (older estimates have no influence).
C4_DecisionReadsLastTen ==
    (AfterTest /\ Len(recrossingFactor) > ConvergenceWindow) =>
        (done <=> LastTenClose(recrossingFactor))

\* C5: for every childrenPerSampling, even or odd, a batch launches exactly
\* childrenPerSampling children and holds that many results to collect, and
\* the childCount a checkpoint records is the number of children summed.
C5_BatchLaunchesChildrenPerSampling ==
    /\ pc = "collect" =>
          /\ Len(launched) = args.childrenPerSampling
          /\ Len(results) = args.childrenPerSampling
    /\ pc = "converge" =>
          Val(recrossingFile).count * Quantum = kappa_denom

\* C6: both children of an antithetic pair start from the parent's current
\* position, one with momentum -p and one with +p, in-process as with a pool.
C6_PairStartsAtParentPosition ==
    pc = "collect" =>
        \A i \in 1..Len(launched) :
            /\ launched[i].q = q
            /\ launched[i].sign = (IF i % 2 = 1 THEN -1 ELSE 1)

\* a step that is a call of computeRateCoefficient, of computeRecrossingFactor
RateCall == pc = "idle" /\ op' = "computeRateCoefficient"
RecrossingCall == pc = "idle" /\ op' = "computeRecrossingFactor"

\* C8: computeRateCoefficient raises RPMDError whenever no PMF is present or
\* no computeRecrossingFactor call has completed; it then writes no rate file
\* and leaves the job as it was.
C8_RateNeedsBothStages ==
    [][ (RateCall /\ (potentialOfMeanForce = None \/ ~ rxCompleted)) =>
            /\ err' = "RPMDError"
            /\ UNCHANGED <<jobVars, fileVars, pc>> ]_vars

C8_Witness ==
    /\ op = "computeRateCoefficient"
    /\ err = "RPMDError"
    /\ potentialOfMeanForce # None
    /\ ~ rxCompleted
    /\ rateFile = None

\* C9: computeRecrossingFactor with no xi_current and no PMF raises RPMDError
\* before it changes dt, xi_current, thermostat or mode or touches a file;
\* with an explicit xi_current it goes on, PMF or not.
C9_RecrossingNeedsPMFOnlyForDefaultXi ==
    [][ RecrossingCall =>
          /\ (args'.xi_current = None /\ potentialOfMeanForce = None) =>
                /\ err' = "RPMDError"
                /\ pc' = "idle"
                /\ UNCHANGED <<jobVars, fileVars>>
          /\ args'.xi_current # None =>
                /\ err' = "none"
                /\ pc' # "idle"
                /\ xi_current' = Val(args'.xi_current)
                /\ mode' = 2 ]_vars

C9_Witness ==
    /\ op = "computeRecrossingFactor"
    /\ err = "RPMDError"
    /\ args.xi_current = None
    /\ potentialOfMeanForce = None
    /\ mode = 0
    /\ thermostat = "unset"

\* ---------------------------------------------------------------------------
\* Umbrella sampling claims (checked under SpecUmbrella)
\* ---------------------------------------------------------------------------

\* the sum of two sets of statistics
StatsPlus(w, d) ==
    [av |-> w.av + d.av, av2 |-> w.av2 + d.av2, count |-> w.count + d.count]

\* one pass of a run that is never stopped: the k-th trajectory of a window is
\* the one after the k trajectories it has had
SampleOnce(s, w, marked) ==
    [l \in 1..NWindows |->
        IF \E i \in 1..Len(marked) : marked[i] = l
        THEN StatsPlus(w[l], RunUmbrellaTrajectory(s, l, w[l].count \div EvolutionSteps))
        ELSE w[l]]

\* the statistics an uninterrupted run on a fresh directory ends with
RECURSIVE Uninterrupted(_, _, _, _)
Uninterrupted(s, w, marked, prev) ==
    LET after == SampleOnce(s, w, marked)
        new == CalculatePotentialOfMeanForce(after)
        next == MarkedWindows(new, Baseline(prev, new), after)
    IN  IF next = <<>> THEN after ELSE Uninterrupted(s, after, next, Some(new))

UninterruptedFinal(s) ==
    Uninterrupted(s, FreshWindows, [l \in 1..NWindows |-> l], None)

\* every call so far was made with fresh Window objects on an undamaged
\* directory, every stop came after at least one whole pass, and no trajectory
\* has raised
CleanResumption ==
    /\ ~ history.reused /\ ~ history.corrupted /\ ~ history.emptyStop /\ ~ history.failed
    /\ HasConfigurations(umbrellaConfigurations)

CallEnded == pc = "idle" /\ op = "computePotentialOfMeanForce"

\* C1: with a deterministic trajectory source, a call of
\* computePotentialOfMeanForce that ends, whatever whole number of passes the
\* earlier calls on the directory were stopped after, leaves in every fresh
\* Window the av, av2 and count that one uninterrupted run ends with.
C1_ResumptionMatchesUninterruptedRun ==
    (CallEnded /\ CleanResumption) =>
        (err = "none" /\ win = UninterruptedFinal(src))

\* a step of the call that loads the checkpoints, and a step of the loop
LoadStep == history'.calls # history.calls
LoopStep == pc \in {"sample", "gather", "check", "final"} /\ op' = op

\* window l went from w to w2 by adding the last row of its file or the result
\* of the trajectory the pass ran for it
AddedLoadedRow(l) ==
    /\ LoadStep
    /\ umbrellaFile[l] # None
    /\ Val(umbrellaFile[l]).rows # <<>>
    /\ win'[l] = StatsPlus(win[l],
            ParseRow(Val(umbrellaFile[l]).rows[Len(Val(umbrellaFile[l]).rows)]))
AddedBatchResult(l) ==
    /\ pc = "gather"
    /\ \E i \in 1..Len(windows) :
            windows[i] = l /\ win'[l] = StatsPlus(win[l], trajResults[i])

\* C2: during the load and during every pass, the count of a window never
\* decreases, and av, av2 and count change only by adding the last row of the
\* window's checkpoint or the result of a trajectory of the batch.
C2_StatisticsOnlyAccumulate ==
    [][ (LoadStep \/ LoopStep) =>
            \A l \in 1..NWindows :
                /\ win'[l].count >= win[l].count
                /\ \/ win'[l] = win[l]
                   \/ AddedLoadedRow(l)
                   \/ AddedBatchResult(l) ]_vars

\* a second call on fresh windows has loaded a row and then added a batch
C2_Witness ==
    /\ pc = "check"
    /\ history.calls = 2
    /\ ~ history.reused
    /\ trajResults # <<>>
    /\ \E l \in 1..NWindows :
            /\ win[l].count = 2 * EvolutionSteps
            /\ Len(Val(umbrellaFile[l]).rows) = 2

\* C7: when loadUmbrellaSampling rejects the header of a checkpoint, the call
\* ends with RPMDError and no Window's av, av2 or count has changed.
C7_RejectedHeaderLeavesWindows ==
    (CallEnded /\ err = "RPMDError") => win = win0

\* C10: when the check after a pass recomputes a PMF equal to the one it had
\* before, it marks no window, the loop ends, and the call finishes with the
\* final calculation without another pass.
C10_UnchangedPMFEndsLoop ==
    [][ /\ (/\ pc = "check"
            /\ err' = "none"
            /\ potentialOfMeanForce # None
            /\ potentialOfMeanForce' = potentialOfMeanForce)
                => (windows' = <<>> /\ pc' = "final")
        /\ pc = "final" => (pc' = "idle" /\ win' = win) ]_vars

\* the loop has ended on an unchanged PMF after a pass that ran trajectories,
\* with budget left in some window
C10_Witness ==
    /\ pc = "final"
    /\ pmfRepeated
    /\ passes >= 2
    /\ trajResults # <<>>
    /\ \E l \in 1..NWindows : win[l].count < MaxTrajectories * EvolutionSteps

\* the call is inside its while loop or at the final calculation
InLoop == pc \in {"sample", "gather", "check", "final"}

\* the passes the budgets allow: the first one and one for every trajectory
PassBound == 1 + NWindows * MaxTrajectories

\* C11: the loop of computePotentialOfMeanForce always terminates: a check
\* that marks no window ends it, a check marks only windows whose count is
\* below trajectories * evolutionSteps, the number of passes never exceeds
\* what the trajectory budgets allow, and a call that has started always
\* comes to an end.
C11_LoopTerminates ==
    /\ [][ (pc = "check" /\ err' = "none" /\ windows' = <<>>) => pc' = "final" ]_vars
    /\ [][ pc = "check" =>
                \A i \in 1..Len(windows') :
                    win[windows'[i]].count < MaxTrajectories * EvolutionSteps ]_vars
    /\ [](InLoop => passes <= PassBound)
    /\ (InLoop ~> pc = "idle")

\* the loop has ended because the budget of every window is used up, after a
\* check that still found the PMF changed
C11_Witness ==
    /\ pc = "final"
    /\ ~ pmfRepeated
    /\ passes >= MaxTrajectories
    /\ \A l \in 1..NWindows : ~ HasBudget(win[l])

\* how many trajectories of the pass were run for window l
TrajectoriesFor(l, ws) == Cardinality({i \in 1..Len(ws) : ws[i] = l})

\* C12: a pass runs exactly one trajectory for each window of its work list
\* and none for the others: while the results are collected no window has
\* grown by more than one trajectory, and when the check is reached every
\* listed window has grown by exactly evolutionSteps and no other has changed.
C12_OneTrajectoryPerMarkedWindow ==
    /\ pc = "gather" =>
            /\ Len(trajResults) = Len(windows)
            /\ \A l \in 1..NWindows :
                    /\ TrajectoriesFor(l, windows) <= 1
                    /\ win[l].count - passStart.win[l].count \in {0, EvolutionSteps}
                    /\ TrajectoriesFor(l, windows) = 0 => win[l] = passStart.win[l]
    /\ pc = "check" =>
            \A l \in 1..NWindows :
                win[l].count = passStart.win[l].count
                    + EvolutionSteps * TrajectoriesFor(l, passStart.windows)

\* a check is reached after a pass that sampled some windows and not others
C12_Witness ==
    /\ pc = "check"
    /\ passStart.windows # <<>>
    /\ \E l \in 1..NWindows :
            /\ TrajectoriesFor(l, passStart.windows) = 0
            /\ win[l] = passStart.win[l]
            /\ win[l].count > 0
    /\ \E l \in 1..NWindows :
            win[l].count = passStart.win[l].count + EvolutionSteps

\* the PMF a check step leaves and the one it compared it with
CheckedNew == Val(potentialOfMeanForce')
CheckedOld == Baseline(potentialOfMeanForce, CheckedNew)

\* a check step that completed
CheckStep == pc = "check" /\ err' = "none" /\ pc' # "idle"

\* the rows of the new PMF that diverged from the old one
DivergedRows == {n \in 2..Len(CheckedNew.A) : Diverged(CheckedNew, CheckedOld, n)}
FirstDivergedRow == CHOOSE n \in DivergedRows : \A o \in DivergedRows : n <= o

\* C13: when a check finds a first diverged bin, the windows it marks are
\* exactly those centred at or after the coordinate of that bin which have
\* budget left.
C13_MarksWindowsFromDivergedBin ==
    [][ (CheckStep /\ DivergedRows # {}) =>
            windows' = SelectSeq([l \in 1..NWindows |-> l],
                            LAMBDA l : /\ WindowXi(l) >= CheckedNew.xi[FirstDivergedRow]
                                       /\ HasBudget(win[l])) ]_vars

RECURSIVE MaxAbsOf(_, _)
MaxAbsOf(A, n) ==
    IF n = 1 THEN Abs(A[1])
    ELSE CHOOSE r \in {IF Abs(A[n]) > m THEN Abs(A[n]) ELSE m : m \in {MaxAbsOf(A, n - 1)}} : TRUE

\* C14: the bins a check counts as diverged are exactly those where the
\* absolute change of the PMF exceeds the tolerance times the largest
\* magnitude of the new profile, whatever the sign of that largest value.
C14_ThresholdIsLargestMagnitude ==
    [][ CheckStep =>
            DivergedRows = {n \in 2..Len(CheckedNew.A) :
                Abs(CheckedNew.A[n] - CheckedOld.A[n]) * tolerance.den
                    > tolerance.num * MaxAbsOf(CheckedNew.A, Len(CheckedNew.A))} ]_vars

\* C15: a calculation of the PMF made when at least one window has samples
\* completes, never dividing by the count of a window without samples; when
\* every window has samples its result is the weighted sum over all of them.
C15_UnsampledWindowsAreSkipped ==
    [][ (pc = "check" /\ \E l \in 1..NWindows : win[l].count > 0) =>
            /\ err' = "none"
            /\ pc' # "idle"
            /\ potentialOfMeanForce' # None
            /\ PMFDefined(win) =>
                    potentialOfMeanForce' = Some(CalculatePotentialOfMeanForce(win)) ]_vars

\* C16: the free energy stored at every grid point n is the trapezoidal
\* integral of the slopes over the grid points 0..n, the point n included.
C16_FreeEnergyIntegratesThroughPoint ==
    [][ CheckStep =>
            \A n \in 1..Bins : CheckedNew.A[n] = Trapz2(win, n) \div 2 ]_vars

\* C17: every PMF table that calculatePotentialOfMeanForce leaves has `bins`
\* columns, its coordinates are the linear grid from xi_min to xi_max with
\* both ends included, and its free energy at the first grid point is 0.
C17_TableShapeAndAnchor ==
    potentialOfMeanForce # None =>
        LET table == Val(potentialOfMeanForce)
        IN  /\ Len(table.xi) = Bins
            /\ Len(table.A) = Bins
            /\ table.xi[1] = XiMin
            /\ table.xi[Bins] = XiMax
            /\ \A n \in 1..Bins :
                    table.xi[n] * (Bins - 1) = XiMin * (Bins - 1) + (n - 1) * (XiMax - XiMin)
            /\ table.A[1] = 0

\* a call has ended with a table whose free energies are not all zero
C17_Witness ==
    /\ CallEnded
    /\ err = "none"
    /\ potentialOfMeanForce # None
    /\ \E n \in 1..Bins : Val(potentialOfMeanForce).A[n] # 0

\* the file holds what savePotentialOfMeanForce writes for the table in memory
\* and the step reads it back
ReloadStep ==
    /\ op' = "loadPotentialOfMeanForce"
    /\ potentialOfMeanForce # None
    /\ pmfFile = Some(FormatPMF(Val(potentialOfMeanForce)))
    /\ potentialOfMeanForce' = Some(ParsePMF(Val(pmfFile)))

\* C18: reading back the file of a saved table gives the same coordinates
\* exactly, and free energies that agree with the saved ones to the last
\* decimal the file keeps.
C18_PMFRoundTrip ==
    [][ ReloadStep =>
            /\ Val(potentialOfMeanForce').xi = Val(potentialOfMeanForce).xi
            /\ \A n \in 1..Len(Val(potentialOfMeanForce).A) :
                    FormatEnergy(Val(potentialOfMeanForce').A[n])
                        = FormatEnergy(Val(potentialOfMeanForce).A[n]) ]_vars

\* every result of the pass is in the coordinator's hands: in-process the
\* dispatch loop returned them all, with a pool get() has returned each
AllCollected == ~ args.pool \/ resultCount = Len(windows)

\* C19: within a pass no window's sums are updated and no row is appended to
\* a checkpoint before the result of every task of the pass has been
\* collected, and the convergence check is made only after all of them.
C19_BatchDrainedBeforeUse ==
    /\ (pc = "gather" /\ (win # passStart.win \/ umbrellaFile # passStart.files))
            => AllCollected
    /\ pc = "check" => resultCount = Len(passStart.windows)

\* C20: when a task of a pass raises, the call ends with that error and
\* neither the windows nor the checkpoint files hold anything of that pass.
C20_FailedBatchLeavesNoTrace ==
    [][ (InLoop /\ pc' = "idle" /\ err' = "TrajectoryError") =>
            (win' = passStart'.win /\ umbrellaFile' = passStart'.files) ]_vars

\* ---------------------------------------------------------------------------
\* The worker pool and the checkpoints of the recrossing stage
\* ---------------------------------------------------------------------------

\* the windows after the results rs of the work list ws have been added one
\* after the other in the list's order, as in-process execution does
RECURSIVE SequentialWindows(_, _, _, _)
SequentialWindows(w, ws, rs, n) ==
    IF n = 0 THEN w
    ELSE LET before == SequentialWindows(w, ws, rs, n - 1)
         IN  [before EXCEPT ![ws[n]] = StatsPlus(@, [av |-> rs[n].av, av2 |-> rs[n].av2,
                                                     count |-> rs[n].count])]

\* the sum over a set of children of a field of their results
RECURSIVE TotalOver(_, _)
TotalOver(f, S) ==
    IF S = {} THEN 0
    ELSE LET i == CHOOSE x \in S : TRUE IN f[i] + TotalOver(f, S \ {i})

\* a step in which a task of the pool finishes
TaskStep == Len(finished') = Len(finished) + 1 /\ pc' = pc

\* C21: whatever the order in which the tasks of a batch finish, and in-process
\* as with a pool, the sums after the batch are those of adding the per-task
\* results in dispatch order: each window's av, av2 and count at the end of a
\* pass, and kappa_num, kappa_denom after a batch of children (childCount is
\* counted at dispatch); a task that finishes changes none of the sums.
C21_SumsIndependentOfCompletionOrder ==
    /\ [](pc = "check" =>
            win = SequentialWindows(passStart.win, passStart.windows, trajResults,
                                    Len(passStart.windows)))
    /\ [][ (pc = "collect" /\ pc' = "save") =>
            /\ kappa_denom' = kappa_denom
                    + TotalOver([i \in 1..Len(results) |-> results[i].denom],
                                1..Len(results))
            /\ \A t \in 1..ChildEvolutionSteps :
                    kappa_num'[t] = kappa_num[t]
                        + TotalOver([i \in 1..Len(results) |-> results[i].num[t]],
                                    1..Len(results))
            /\ childCount' = childCount ]_vars
    /\ [][ TaskStep => UNCHANGED <<win, umbrellaFile, kappa_num, kappa_denom, childCount>> ]_vars

\* a pass on the pool has ended whose tasks finished in the reverse of the
\* order of dispatch, in a job whose recrossing stage has run
C21_Witness ==
    /\ pc = "check"
    /\ args.pool
    /\ finished = <<3, 2, 1>>
    /\ recrossingFile # None

\* a step that is a call of one of the two sampling stages, made when the
\* stage can start (the umbrella stage has its configurations)
StageCall ==
    /\ pc = "idle"
    /\ op' \in {"computePotentialOfMeanForce", "computeRecrossingFactor"}
    /\ op' = "computePotentialOfMeanForce" => HasConfigurations(umbrellaConfigurations)

\* C22: without the multiprocessing package, a stage called with
\* processes = 1 starts without error and runs every task in-process (no pool
\* is used and each task has finished when the dispatch loop is over), and a
\* stage called with processes > 1 ends at once with ValueError, with no
\* trajectory dispatched and no checkpoint file created or changed.
C22_MissingPoolFacility ==
    /\ [][ (StageCall /\ ~ multiprocessing) =>
            /\ args'.processes = 1 => (err' = "none" /\ pc' # "idle")
            /\ args'.processes > 1 =>
                    /\ err' = "ValueError"
                    /\ pc' = "idle"
                    /\ win' = win /\ umbrellaFile' = umbrellaFile
                    /\ UNCHANGED fileVars
                    /\ op' = "computePotentialOfMeanForce" => trajResults' = <<>>
                    /\ op' = "computeRecrossingFactor" =>
                            (results' = <<>> /\ launched' = <<>>) ]_vars
    /\ [](~ multiprocessing =>
            /\ ~ args.pool
            /\ \/ err \in {"none", "ValueError"}
               \/ /\ err = "RPMDError"
                  /\ op = "computePotentialOfMeanForce"
                  /\ ~ HasConfigurations(umbrellaConfigurations)
            /\ pc = "gather" => finished = [i \in 1..Len(windows) |-> i]
            /\ pc = "collect" => finished = [i \in 1..Len(results) |-> i])

\* both outcomes have happened on one directory: a call with processes > 1 has
\* just been refused, after in-process runs of both stages left checkpoints
C22_Witness ==
    /\ ~ multiprocessing
    /\ err = "ValueError"
    /\ args.processes > 1
    /\ recrossingFile # None
    /\ \E l \in 1..NWindows : umbrellaFile[l] # None /\ Val(umbrellaFile[l]).rows # <<>>

\* C23: the load loop adds the sums of an existing checkpoint to a window
\* only when the time step, the force constant and the step counts the
\* checkpoint records are those of the current job: a window whose checkpoint
\* records other parameters keeps its av, av2 and count through the load.
C23_IncompatibleCheckpointNotMixed ==
    [][ LoadStep =>
            \A l \in 1..NWindows :
                (umbrellaFile[l] # None /\ Val(umbrellaFile[l]).params # WindowParams)
                    => win'[l] = win[l] ]_vars

\* a step of a computeRecrossingFactor call that has started, not its last
RecrossingStep ==
    /\ pc \in {"equilibrate", "dispatch", "collect", "save", "converge", "advance"}
    /\ pc' # "idle"

\* the call finds a checkpoint written for its reaction coordinate and time step
ResumesFrom(f) == RecrossingCall /\ err' = "none" /\ f # None /\ Compatible(Val(f), xi_current', dt')

\* C24: a computeRecrossingFactor call that resumes from a compatible
\* checkpoint starts from the kappa_num, kappa_denom and childCount it loaded,
\* and from then on the sums change only by addition: childCount by the
\* children a batch launches, kappa_num and kappa_denom by the results of the
\* batch's children; no step of the call resets or replaces them.
C24_LoadedSumsAreTheBase ==
    /\ [][ ResumesFrom(recrossingFile) =>
            /\ childCount' = Val(recrossingFile).count
            /\ kappa_denom' = ParseFixed(Val(recrossingFile).denom)
            /\ kappa_num' = [t \in 1..Len(Val(recrossingFile).num) |->
                                ParseFixed(Val(recrossingFile).num[t])] ]_vars
    /\ [][ RecrossingStep =>
            /\ childCount' = childCount + (IF pc = "dispatch" THEN Len(results') ELSE 0)
            /\ kappa_denom' = kappa_denom
                    + (IF pc = "collect" /\ pc' = "save"
                       THEN TotalOver([i \in 1..Len(results) |-> results[i].denom],
                                      1..Len(results))
                       ELSE 0)
            /\ \A t \in 1..ChildEvolutionSteps :
                    kappa_num'[t] = kappa_num[t]
                        + (IF pc = "collect" /\ pc' = "save"
                           THEN TotalOver([i \in 1..Len(results) |-> results[i].num[t]],
                                          1..Len(results))
                           ELSE 0) ]_vars

\* a resumed call has run two batches on top of the sums it loaded
C24_Witness ==
    /\ pc = "converge"
    /\ Len(recrossingFactor) = 1
    /\ args.childrenPerSampling = 2
    /\ childCount > 2 * args.childrenPerSampling
    /\ kappa_denom = childCount * Quantum

\* the checkpoint f was written for another reaction coordinate, time step or
\* child-trajectory length than those of the call being made
Mismatch(f) ==
    \/ f.xi # xi_current'
    \/ f.dt # dt'
    \/ Len(f.num) # ChildEvolutionSteps

\* C25: a computeRecrossingFactor call that finds a checkpoint whose reaction
\* coordinate, time step or child-trajectory length differs from the job's
\* starts from zero sums and zero childCount.
C25_MismatchedCheckpointStartsFromZero ==
    [][ (RecrossingCall /\ err' = "none" /\ recrossingFile # None
            /\ Mismatch(Val(recrossingFile))) =>
                /\ childCount' = 0
                /\ kappa_denom' = 0
                /\ kappa_num' = [t \in 1..ChildEvolutionSteps |-> 0] ]_vars

\* the batch after which a run that is never interrupted stops on convergence
\* when every child returns the same contribution: the first length at which
\* the convergence test succeeds on a list of equal estimates
UninterruptedStop ==
    CHOOSE n \in 1..MaxChildTrajectories :
        /\ Converged([k \in 1..n |-> <<Quantum, Quantum>>])
        /\ \A m \in 1..(n - 1) : ~ Converged([k \in 1..m |-> <<Quantum, Quantum>>])

\* the batches run so far on the checkpoint, over all calls
TotalBatches == childCount \div args.childrenPerSampling

\* C26: the state of the recrossing calculation is restored on resume, so that
\* a calculation run in several calls takes the convergence stop decision
\* after the same total number of batches as one uninterrupted run: when
\* every child returns the same contribution, the test after a batch succeeds
\* exactly when the batches of all calls together number what the
\* uninterrupted run needs.
C26_ResumedRunStopsWhereUninterruptedDoes ==
    (AfterTest /\ deviants = 0 /\ args.childrenPerSampling = 2) =>
        (done <=> TotalBatches = UninterruptedStop)

\* the running call was made with an even childrenPerSampling >= 2
EvenBatches ==
    /\ pc # "idle"
    /\ args.childrenPerSampling >= 2
    /\ args.childrenPerSampling % 2 = 0

\* a step on which the sampling loop is left
LoopExit == pc = "advance" /\ pc' = "finish"

\* C27: with an even childrenPerSampling >= 2 a computeRecrossingFactor call
\* comes to an end; a batch is launched only while childCount is below
\* childTrajectories, so that the loop is left either on convergence or with
\* childTrajectories <= childCount < childTrajectories + childrenPerSampling;
\* and a call that loads childCount >= childTrajectories goes straight to the
\* result: no parent is equilibrated, no child is launched and the checkpoint
\* is not written.
C27_RecrossingLoopTerminates ==
    /\ EvenBatches ~> pc = "idle"
    /\ [](pc = "dispatch" => childCount < args.childTrajectories)
    /\ [][ (LoopExit /\ EvenBatches) =>
            \/ done'
            \/ /\ childCount' >= args.childTrajectories
               /\ childCount' < args.childTrajectories + args.childrenPerSampling ]_vars
    /\ [][ (RecrossingCall /\ err' = "none" /\ childCount' >= args'.childTrajectories) =>
            (pc' = "finish" /\ UNCHANGED fileVars) ]_vars
    /\ [][ (pc = "finish" /\ recrossingFactor = <<>>) =>
            /\ q = NoPosition /\ launched = <<>> /\ results = <<>>
            /\ pc' = "idle"
            /\ UNCHANGED fileVars ]_vars

\* the loop has been left at the child budget, without convergence, by a call
\* that resumed from a checkpoint; before it a call found the budget already
\* met by the checkpoint
C27_Witness ==
    /\ pc = "finish"
    /\ ~ done
    /\ Len(recrossingFactor) >= 2
    /\ args.childrenPerSampling = 2
    /\ childCount = args.childTrajectories
    /\ childCount > Len(recrossingFactor) * args.childrenPerSampling

\* C28: the list of estimates kept for the convergence test never holds more
\* than the 10 estimates of the convergence window, however many batches run.
C28_EstimateHistoryBounded ==
    Len(recrossingFactor) <= ConvergenceWindow

\* the checkpoint holds one row per child time step, with the sums and the
\* count now in memory, as the file's format writes them
FileRecordsSums ==
    /\ recrossingFile # None
    /\ Len(Val(recrossingFile).num) = ChildEvolutionSteps
    /\ Val(recrossingFile).num = [t \in 1..ChildEvolutionSteps |-> FormatFixed(kappa_num[t])]
    /\ Val(recrossingFile).denom = FormatFixed(kappa_denom)
    /\ Val(recrossingFile).count = childCount

\* C29: after every completed batch the checkpoint holds exactly one row per
\* child time step and records the kappa_num, kappa_denom and count that are
\* in memory after the batch; it is written before the convergence test is
\* made and before the parent trajectory is advanced.
C29_CheckpointRewrittenAfterEveryBatch ==
    /\ [](pc \in {"converge", "advance"} => FileRecordsSums)
    /\ [][ pc = "save" => (pc' = "converge" /\ FileRecordsSums') ]_vars
    /\ [][ (pc \in {"collect", "save"} /\ pc' # "idle") =>
                (recrossingFactor' = recrossingFactor /\ q' = q) ]_vars

\* the checkpoint has been rewritten after the third batch of a call, with
\* sums that the file's format rounds
C29_Witness ==
    /\ pc = "converge"
    /\ Len(recrossingFactor) = 2
    /\ \E t \in 1..ChildEvolutionSteps : kappa_num[t] % Quantum # 0
    /\ FileRecordsSums


\* ---------------------------------------------------------------------------
\* The umbrella configurations file
\* ---------------------------------------------------------------------------

\* a step that is a call of generateUmbrellaConfigurations
GenerateStep == pc = "idle" /\ op' = "generateUmbrellaConfigurations"

\* the xi list of the configurations file
FileXiList == [l \in 1..Len(Val(configurationsFile).rows) |->
                    Val(configurationsFile).rows[l].xi]

\* a file exists and its xi list has the length of the requested one and is
\* within 1e-6 of it, value by value
FileAgrees(xi_list) ==
    /\ configurationsFile # None
    /\ Len(xi_list) = Len(FileXiList)
    /\ \A l \in 1..Len(xi_list) : Abs(xi_list[l] - FileXiList[l]) < XiTolerance

\* C30: a call of generateUmbrellaConfigurations that finds a configurations
\* file whose xi list matches the requested one (same length, every value
\* within 1e-6) takes over every configuration of the file, calls the
\* propagator not once and leaves the file as it is, whatever the temperature,
\* bead count, force constant and evolution time of the file and of the call;
\* any other call equilibrates every requested window once with the force
\* constant and the steps of the call and writes the file anew, with the
\* parameters of the call and the requested xi list.
C30_ConfigurationsReusedOnMatchingXi ==
    [][ GenerateStep =>
            IF FileAgrees(args'.xi_list)
            THEN /\ equilibrateLog' = <<>>
                 /\ configurationsFile' = configurationsFile
                 /\ umbrellaConfigurations' # None
                 /\ Len(Val(umbrellaConfigurations')) = Len(FileXiList)
                 /\ \A l \in 1..Len(FileXiList) :
                        /\ Val(umbrellaConfigurations')[l].xi = FileXiList[l]
                        /\ Val(umbrellaConfigurations')[l].q.path =
                                Val(configurationsFile).rows[l].q.path
            ELSE /\ Len(equilibrateLog') = Len(args'.xi_list)
                 /\ {equilibrateLog'[i].l : i \in 1..Len(equilibrateLog')} =
                        1..Len(args'.xi_list)
                 /\ \A i \in 1..Len(equilibrateLog') :
                        /\ equilibrateLog'[i].kforce = args'.kforce
                        /\ equilibrateLog'[i].steps = args'.evolutionSteps
                        /\ equilibrateLog'[i].xi = args'.xi_list[equilibrateLog'[i].l]
                 /\ configurationsFile' # None
                 /\ Val(configurationsFile').T = job.T
                 /\ Val(configurationsFile').Nbeads = job.Nbeads
                 /\ Val(configurationsFile').evolutionSteps = args'.evolutionSteps
                 /\ Len(Val(configurationsFile').rows) = Len(args'.xi_list)
                 /\ \A l \in 1..Len(args'.xi_list) :
                        LET row == Val(configurationsFile').rows[l]
                        IN  /\ row.xi = FormatG(args'.xi_list[l])
                            /\ row.q.path[Len(row.q.path)] =
                                    [xi |-> args'.xi_list[l], kforce |-> args'.kforce,
                                     steps |-> args'.evolutionSteps]
                            /\ Val(umbrellaConfigurations')[l].xi = args'.xi_list[l]
                            /\ Val(umbrellaConfigurations')[l].q.path = row.q.path ]_vars

\* a call has just taken over the file of a job with another temperature,
\* another bead count, another force constant and another evolution time,
\* for a requested xi list that is near the list of the file without being it
C30_Witness ==
    /\ op = "generateUmbrellaConfigurations"
    /\ equilibrateLog = <<>>
    /\ umbrellaConfigurations # None
    /\ configurationsFile # None
    /\ Val(configurationsFile).T # job.T
    /\ Val(configurationsFile).Nbeads # job.Nbeads
    /\ Val(configurationsFile).evolutionSteps # args.evolutionSteps
    /\ Val(configurationsFile).rows[1].q.path[1].kforce # args.kforce
    /\ args.xi_list # FileXiList
    /\ FileAgrees(args.xi_list)


\* ---------------------------------------------------------------------------
\* Loading the potential of mean force
\* ---------------------------------------------------------------------------

\* a step that is a call of loadPotentialOfMeanForce on any file
PMFLoadStep == pc = "idle" /\ op' = "loadPotentialOfMeanForce" /\ args'.file # None

\* the table in memory is the whole table of the declared bin count, every
\* column read from a row of the file
CompleteTable(pmf, file) ==
    /\ pmf # None
    /\ Len(Val(pmf).xi) = file.bins
    /\ Len(file.rows.xi) >= file.bins
    /\ \A k \in 1..file.bins :
            /\ Val(pmf).xi[k] = ParseFixed(file.rows.xi[k])
            /\ Val(pmf).A[k] = ParseEnergy(file.rows.A[k])

\* C31: a call of loadPotentialOfMeanForce either ends without error with the
\* complete table of the file in memory, or ends with an error and leaves the
\* table in memory as it was before the call; this for a wrong header tag, an
\* unknown parameter name and a table with fewer rows than the declared bins.
C31_LoadIsAllOrNothing ==
    [][ PMFLoadStep =>
            \/ err' = "none" /\ CompleteTable(potentialOfMeanForce', Val(args'.file))
            \/ err' # "none" /\ potentialOfMeanForce' = potentialOfMeanForce ]_vars


\* ---------------------------------------------------------------------------
\* Equivalent transition states: the atom mapping
\* ---------------------------------------------------------------------------

\* a step that is a call of addEquivalentTransitionState
AddStep == pc = "idle" /\ op' = "addEquivalentTransitionState"

\* the partners the supplied bonds give each atom: bond k of the first
\* transition state against bond k supplied, end by end, in both directions
Partners(bonds0, bonds) ==
    UNION { { <<bonds0[k][e], bonds[k][e]>>, <<bonds[k][e], bonds0[k][e]>> } :
                k \in 1..(IF Len(bonds0) < Len(bonds) THEN Len(bonds0) ELSE Len(bonds)),
                e \in 1..2 }
AllPartners(forming, breaking) ==
    Partners(transitionStates[1].formingBonds, forming)
        \cup Partners(transitionStates[1].breakingBonds, breaking)

\* some atom is given two different partners
TwoPartners(forming, breaking) ==
    \E p \in AllPartners(forming, breaking), r \in AllPartners(forming, breaking) :
        p[1] = r[1] /\ p[2] # r[2]

\* C32: a call of addEquivalentTransitionState whose bonds give some atom two
\* different partners ends with ValueError and leaves the list of transition
\* states as it was; any other call appends exactly one transition state, and
\* the mapping its geometry was permuted by sends every atom of 1..NAtoms to
\* an atom of 1..NAtoms, is its own inverse, agrees with every partner the
\* bonds give and leaves the other atoms in place.
C32_EquivalentMappingIsConsistent ==
    [][ AddStep =>
            IF TwoPartners(args'.formingBonds, args'.breakingBonds)
            THEN err' = "ValueError" /\ transitionStates' = transitionStates
            ELSE /\ err' = "none"
                 /\ Len(transitionStates') = Len(transitionStates) + 1
                 /\ SubSeq(transitionStates', 1, Len(transitionStates)) = transitionStates
                 /\ LET g == transitionStates'[Len(transitionStates')].geometry
                        ps == AllPartners(args'.formingBonds, args'.breakingBonds)
                    IN  /\ \A j \in 1..NAtoms : g[j] \in 1..NAtoms /\ g[g[j]] = j
                        /\ \A p \in ps : g[p[1]] = p[2]
                        /\ \A j \in 1..NAtoms :
                                (\A p \in ps : p[1] # j) => g[j] = j ]_vars

\* a call has been refused for its bonds after another call appended a
\* transition state whose atoms 1 and 2 change places
C32_Witness ==
    /\ op = "addEquivalentTransitionState"
    /\ err = "ValueError"
    /\ Len(transitionStates) = 2
    /\ transitionStates[2].geometry[1] = 2
    /\ transitionStates[2].geometry[2] = 1


\* ---------------------------------------------------------------------------
\* The first pass and the budget of the umbrella sampling
\* ---------------------------------------------------------------------------

\* the windows that have no checkpoint file, in the order of the window list
WithoutFile == SelectSeq([l \in 1..NWindows |-> l], LAMBDA l : umbrellaFile[l] = None)

\* C33: a call of computePotentialOfMeanForce that starts its loop puts every
\* window without a checkpoint file on the work list of the first pass, which
\* is dispatched before any convergence test; and whenever the PMF is about to
\* be computed inside the call every window has count > 0, a window whose
\* file exists without a data row included.
C33_EveryWindowSampledBeforePMF ==
    /\ [][ (LoadStep /\ pc' = "sample") => windows' = WithoutFile ]_vars
    /\ [](pc \in {"check", "final"} => \A l \in 1..NWindows : win[l].count > 0)


\* the last row of the checkpoint file of window l, None when there is none
LastRow(l) ==
    IF umbrellaFile[l] # None /\ Val(umbrellaFile[l]).rows # <<>>
    THEN Some(Val(umbrellaFile[l]).rows[Len(Val(umbrellaFile[l]).rows)])
    ELSE None

\* a turn of the collecting loop that took a result
TookResult == pc = "gather" /\ resultCount' = resultCount + 1

\* C34: at the end of every pass on an undamaged directory, the last row of
\* the checkpoint of every window that has samples records the av, av2 and
\* count the window holds in memory (as the file format writes them), and
\* every trajectory result a window receives appends exactly one row to the
\* file of that window and none to the others; this in first calls and in
\* calls repeated on the same Window objects alike.
C34_CheckpointRecordsWindowState ==
    /\ []((pc = "check" /\ ~ history.corrupted) =>
            \A l \in 1..NWindows :
                win[l].count > 0 => LastRow(l) = Some(FormatRow(win[l])))
    /\ [][ TookResult =>
            \A l \in 1..NWindows :
                Len(Val(umbrellaFile'[l]).rows) = Len(Val(umbrellaFile[l]).rows)
                    + (IF l = windows[resultCount + 1] THEN 1 ELSE 0) ]_vars


\* the most samples a window may hold: trajectories x evolutionSteps
Budget == MaxTrajectories * EvolutionSteps

\* C35: as long as every call was given Window objects without samples, no
\* window ever holds more than trajectories x evolutionSteps samples, and a
\* pass that is about to be dispatched lists no window that has reached that
\* number.
C35_TrajectoryBudgetRespected ==
    ~ history.reused =>
        /\ \A l \in 1..NWindows : win[l].count <= Budget
        /\ pc = "sample" =>
                \A i \in 1..Len(windows) : win[windows[i]].count < Budget

\* a pass is about to be dispatched for some windows while another window,
\* filled to its budget, is left out
C35_Witness ==
    /\ ~ history.reused
    /\ pc = "sample"
    /\ windows # <<>>
    /\ \E l \in 1..NWindows :
            /\ win[l].count = Budget
            /\ \A i \in 1..Len(windows) : windows[i] # l


\* ---------------------------------------------------------------------------
\* The dividing surface of the recrossing stage and of the rate
\* ---------------------------------------------------------------------------

\* the bins at which the PMF in memory is largest
MaxBins == {n \in 1..Len(Val(potentialOfMeanForce).A) :
                \A j \in 1..Len(Val(potentialOfMeanForce).A) :
                    Val(potentialOfMeanForce).A[j] <= Val(potentialOfMeanForce).A[n]}

\* a call of computeRecrossingFactor without xi_current that finds a PMF
DefaultXiCall ==
    /\ RecrossingCall
    /\ args'.xi_current = None
    /\ potentialOfMeanForce # None

\* C36: a call of computeRecrossingFactor without xi_current takes as
\* xi_current the grid coordinate of the lowest-numbered bin at which the PMF
\* is largest, which is one of the grid coordinates of the PMF.
C36_DefaultXiIsFirstMaximum ==
    [][ DefaultXiCall =>
            /\ \E n \in MaxBins :
                    /\ \A o \in MaxBins : n <= o
                    /\ xi_current' = Val(potentialOfMeanForce).xi[n]
            /\ \E n \in 1..Len(Val(potentialOfMeanForce).xi) :
                    xi_current' = Val(potentialOfMeanForce).xi[n] ]_vars

\* a call without xi_current has been made with a PMF that is largest at two
\* bins
C36_Witness ==
    /\ op = "computeRecrossingFactor"
    /\ err = "none"
    /\ args.xi_current = None
    /\ potentialOfMeanForce # None
    /\ Cardinality(MaxBins) = 2
    /\ xi_current = Val(potentialOfMeanForce).xi[2]


\* ---------------------------------------------------------------------------
\* The order of the equilibrations
\* ---------------------------------------------------------------------------

\* a call of generateUmbrellaConfigurations that generated the configurations
GeneratedStep == GenerateStep /\ equilibrateLog' # <<>>

\* the lowest-numbered window at or above xi = 1, the last window if none is
FirstAtOrAboveOne(xi_list) ==
    LET above == {l \in 1..Len(xi_list) : xi_list[l] >= XiOne}
    IN  IF above = {} THEN Len(xi_list)
        ELSE CHOOSE l \in above : \A o \in above : l <= o

\* C37: when the configurations are generated, the equilibrations run from
\* the start window (the first with xi >= 1, the last window if there is
\* none) up to the last window and then from the window below the start
\* window down to the first, one for every window; the start window begins
\* from the transition state geometry, a window above it from the geometry
\* the window below it ended with, a window below it from the geometry the
\* window above it ended with.
C37_EquilibratedOutwardFromTransitionState ==
    [][ GeneratedStep =>
            LET n == Len(args'.xi_list)
                start == FirstAtOrAboveOne(args'.xi_list)
                ended(l) == Val(umbrellaConfigurations')[l].q.path
            IN  /\ Len(equilibrateLog') = n
                /\ \A i \in 1..(n - start + 1) : equilibrateLog'[i].l = start + i - 1
                /\ \A i \in (n - start + 2)..n : equilibrateLog'[i].l = n - i + 1
                /\ \A i \in 1..n :
                        LET call == equilibrateLog'[i]
                        IN  /\ call.from = IF call.l = start THEN <<>>
                                           ELSE IF call.l > start THEN ended(call.l - 1)
                                           ELSE ended(call.l + 1)
                            /\ ended(call.l) =
                                    Append(call.from, [xi |-> args'.xi_list[call.l],
                                                       kforce |-> call.kforce,
                                                       steps |-> call.steps]) ]_vars

\* the configurations were generated for three windows with the start window
\* in the middle: it went first, the window above it second, the one below last
C37_Witness ==
    /\ op = "generateUmbrellaConfigurations"
    /\ Len(equilibrateLog) = 3
    /\ equilibrateLog[1].l = 2
    /\ equilibrateLog[2].l = 3
    /\ equilibrateLog[3].l = 1
    /\ equilibrateLog[3].from = Val(umbrellaConfigurations)[2].q.path
    /\ equilibrateLog[1].from = <<>>


\* ---------------------------------------------------------------------------
\* The parent trajectory of the recrossing stage
\* ---------------------------------------------------------------------------

\* C38: in the recrossing loop every batch is followed by one advance of the
\* parent by one sampling interval, the children of batch k + 1 are given
\* the position the parent has after k advances, and nothing that happens
\* between the dispatch of a batch and the test that follows it changes the
\* position and momentum the parent holds while the call runs.
C38_ParentAdvancesOncePerBatch ==
    /\ [][ pc = "converge" => pc' = "advance" ]_vars
    /\ [][ pc = "advance" =>
            /\ q'.parent = q.parent + 1
            /\ q'.child = q.child
            /\ parentIter' = parentIter + 1 ]_vars
    /\ [][ (pc \in {"dispatch", "collect", "save", "converge"} /\ pc' # "idle") =>
                q' = q ]_vars
    /\ [](pc \in {"dispatch", "collect", "save", "converge", "advance"} =>
            /\ q.parent = parentIter
            /\ q.child = 0
            /\ Len(recrossingFactor) = parentIter + (IF pc = "advance" THEN 1 ELSE 0))
    /\ [](pc = "collect" =>
            \A i \in 1..Len(launched) : launched[i].q.parent = parentIter)

\* the third batch of a call has been dispatched from the parent after two
\* advances
C38_Witness ==
    /\ pc = "collect"
    /\ parentIter = 2
    /\ q = [parent |-> 2, child |-> 0]
    /\ Len(launched) >= 2
    /\ \A i \in 1..Len(launched) : launched[i].q.parent = 2


\* C39: whatever stage calls came before, failed calls of
\* computeRecrossingFactor included, a call of computeRateCoefficient that
\* goes through evaluates the static factor at the xi_current of the call that
\* computed the recrossing factor the object holds, and uses that factor.
C39_RateUsesXiOfStoredFactor ==
    [][ (RateCall /\ err' = "none") =>
            /\ Val(rateFile').xi_current = Val(factorXi)
            /\ Val(rateFile').recrossingFactor = selfRecrossingFactor ]_vars

====
